---- MODULE Spec2Model ----
(***************************************************************************)
(* A model of the RIFF/WAVE codec of src/src/events/juce_ListenerList.h:   *)
(* WavAudioFormatWriter (header writer, write, overflow guard),            *)
(* WavAudioFormatReader (chunk walk, readSamples), BWAVChunk, SMPLChunk    *)
(* and WavAudioFormat::createReaderFor / createWriterFor; and of the       *)
(* ListenerList and MouseCursor classes of the same file.                  *)
(*                                                                         *)
(* Streams are byte sequences (values 0..255) with a position.  Integers   *)
(* keep the width the C++ gives them: uint32 arithmetic is taken modulo    *)
(* 2^32, int and short values are two's complement.                        *)
(***************************************************************************)
EXTENDS Integers, Sequences, FiniteSets, TLC

VARIABLES
    writer,     \* the WavAudioFormatWriter object (fields of the class and its base)
    out,        \* the OutputStream the writer owns: bytes, position
    wlog,       \* history of the calls made on the writer (what a test would record)
    reader,     \* the WavAudioFormatReader object
    inp,        \* the InputStream handed to createReaderFor: bytes, position
    walk,       \* position of the reader's constructor in its chunk walk
    rlog,       \* history of the chunk walk and of createReaderFor
    dest,       \* destination buffers of readSamples and its request
    listeners,  \* ListenerList::listeners, the array of listener pointers
    iter,       \* the ListenerList::Iterator of the call in progress
    llog,       \* history of what was done to the list and by the iteration
    cursors,    \* the MouseCursor objects: cursorHandle, and whether they are alive
    instances,  \* the RefCountedMouseCursor objects ever allocated
    standardCursors,  \* the static VoidArray standardCursors
    mouseCursorLock,  \* the static CriticalSection: the thread inside it
    threads,    \* where each thread is in the MouseCursor operation it runs
    clog        \* history of the MouseCursor operations

vars == <<writer, out, wlog, reader, inp, walk, rlog, dest, listeners, iter, llog,
          cursors, instances, standardCursors, mouseCursorLock, threads, clog>>
writerVars == <<writer, out, wlog>>
readerVars == <<reader, inp, walk, rlog, dest>>
listVars == <<listeners, iter, llog>>
cursorVars == <<cursors, instances, standardCursors, mouseCursorLock, threads, clog>>

----------------------------------------------------------------------------
(* Bounds of the model.                                                    *)

\* number of write calls made on one writer
MaxWrites == 9

----------------------------------------------------------------------------
(* Binary primitives.                                                      *)
(*                                                                         *)
(* TLC's integers are 32-bit signed, so a quantity that can reach 2^31     *)
(* (uint32 counters, stream positions, true totals) is a wide number: a    *)
(* pair << hi, lo >> that stands for hi * 65536 + lo with 0 <= lo < 65536. *)
(* The pair of a number is unique, so equality of pairs is equality of     *)
(* numbers.                                                                *)

TwoTo16 == 256 * 256

Min(a, b) == IF a < b THEN a ELSE b
Max(a, b) == IF a > b THEN a ELSE b

\* the wide number hi * 65536 + lo, for any lo
Wide(hi, lo) == << hi + (lo \div TwoTo16), lo % TwoTo16 >>

\* the wide number of a small integer
W(n) == Wide(0, n)

\* the small integer of a wide number below 2^31
WInt(a) == a[1] * TwoTo16 + a[2]

WAdd(a, b) == Wide(a[1] + b[1], a[2] + b[2])
WSub(a, b) == Wide(a[1] - b[1], a[2] - b[2])

\* product with a small factor k (0 <= k < 2^15)
WMul(a, k) == Wide(a[1] * k, a[2] * k)

\* quotient by a small divisor d (0 < d < 2^15), for a >= 0
WDiv(a, d) == << a[1] \div d, ((a[1] % d) * TwoTo16 + a[2]) \div d >>

WLess(a, b) == a[1] < b[1] \/ (a[1] = b[1] /\ a[2] < b[2])
WGeq(a, b) == ~WLess(a, b)

\* conversion to uint32: the value modulo 2^32
WU32(a) == << a[1] % TwoTo16, a[2] >>

\* conversion of small integers to uint16 (wraps) and short (two's complement)
U16(n) == n % TwoTo16
I16(n) == LET u == n % TwoTo16 IN IF u >= 32768 THEN u - TwoTo16 ELSE u

\* C++ integer division truncates towards zero
\* (written without negating a, which may be INT_MIN)
CDivPositive(a, d) == IF a < 0 /\ a % d # 0 THEN (a \div d) + 1 ELSE a \div d
CDiv(a, b) == IF b > 0 THEN CDivPositive(a, b) ELSE -CDivPositive(a, -b)

\* OutputStream::writeInt / writeShort of a small integer (negative ones in
\* two's complement): its little-endian bytes
LE32(n) ==
    << n % 256, (n \div 256) % 256, (n \div 65536) % 256, (n \div 16777216) % 256 >>
LE16(n) ==
    LET u == U16(n) IN << u % 256, (u \div 256) % 256 >>

\* OutputStream::writeInt of a uint32 held as a wide number
WLE32(a) ==
    << a[2] % 256, a[2] \div 256, a[1] % 256, (a[1] \div 256) % 256 >>

\* the uint32 that four little-endian bytes hold, as a wide number
WFromLE32(bs) == << bs[3] + 256 * bs[4], bs[1] + 256 * bs[2] >>

\* littleEndianInt / littleEndianShort read as signed int / short
IntFromLE32(bs) ==
    bs[1] + 256 * bs[2] + 65536 * bs[3]
      + 16777216 * (IF bs[4] >= 128 THEN bs[4] - 256 ELSE bs[4])
ShortFromLE16(bs) == I16(bs[1] + 256 * bs[2])

Zeros(n) == [i \in 1..n |-> 0]

Take(s, n) == SubSeq(s, 1, Min(n, Len(s)))

\* bytes of s from 0-based offset off, at most n of them
Slice(s, off, n) ==
    IF off >= Len(s) \/ n <= 0 THEN << >>
    ELSE SubSeq(s, off + 1, Min(off + n, Len(s)))

\* memory or stream content buf with bs stored at 0-based offset off
\* (a gap between the old end and off reads as zero)
Poke(buf, off, bs) ==
    IF off >= Len(buf) THEN buf \o Zeros(off - Len(buf)) \o bs
    ELSE SubSeq(buf, 1, off) \o bs \o SubSeq(buf, off + Len(bs) + 1, Len(buf))

\* a zeroed buffer of size bytes after the stores of the sequence writes, each
\* << offset, bytes >>, made in that order: a later store overwrites an earlier one
StoreAll(size, writes) ==
    [i \in 1..size |->
        LET hits == { k \in 1..Len(writes) :
                        i > writes[k][1] /\ i <= writes[k][1] + Len(writes[k][2]) }
        IN  IF hits = { } THEN 0
            ELSE LET k == CHOOSE h \in hits : \A g \in hits : g <= h
                 IN  writes[k][2][i - writes[k][1]]]

\* chunkName("RIFF") etc.: the four characters of a chunk identifier
RIFF == << 82, 73, 70, 70 >>
WAVE == << 87, 65, 86, 69 >>
FMT == << 102, 109, 116, 32 >>
DATA == << 100, 97, 116, 97 >>
BEXT == << 98, 101, 120, 116 >>
SMPL == << 115, 109, 112, 108 >>

----------------------------------------------------------------------------
(* Metadata maps (StringPairArray): a sequence of << key, value >> pairs.   *)
(* A value is a string, held as the sequence of its character codes.  A    *)
(* key is the tuple of a string literal, followed by the argument when the *)
(* key is made by String::formatted.                                       *)

bwavDescription == << "bwav description" >>
bwavOriginator == << "bwav originator" >>
bwavOriginatorRef == << "bwav originator ref" >>
bwavOriginationDate == << "bwav origination date" >>
bwavOriginationTime == << "bwav origination time" >>
bwavTimeReference == << "bwav time reference" >>
bwavCodingHistory == << "bwav coding history" >>

\* StringPairArray::operator[]: the value of the key, the empty string if absent
Lookup(values, key) ==
    IF \E i \in 1..Len(values) : values[i][1] = key
    THEN values[CHOOSE i \in 1..Len(values) :
                   /\ values[i][1] = key
                   /\ \A j \in 1..(i - 1) : values[j][1] # key][2]
    ELSE << >>

\* StringPairArray::set: replaces the value of an existing key, else appends
MapSet(values, key, val) ==
    IF \E i \in 1..Len(values) : values[i][1] = key
    THEN LET at == CHOOSE i \in 1..Len(values) : values[i][1] = key
         IN  SubSeq(values, 1, at - 1) \o << << key, val >> >>
                \o SubSeq(values, at + 1, Len(values))
    ELSE Append(values, << key, val >>)

\* String::copyToUTF8 (buffer, maxBufferSizeBytes) for ASCII text: the bytes
\* stored, at most maxBytes of them, the last a terminating NUL
CopyToUTF8(s, maxBytes) == Take(s, maxBytes - 1) \o << 0 >>

\* String::copyToUTF8 (0): the number of bytes needed, terminator included
Utf8BytesNeeded(s) == Len(s) + 1

IsDigit(c) == c >= 48 /\ c <= 57

RECURSIVE DigitsValue(_, _)
DigitsValue(s, acc) ==
    IF s = << >> \/ ~IsDigit(Head(s)) THEN acc
    ELSE DigitsValue(Tail(s), acc * 10 + (Head(s) - 48))

RECURSIVE SkipSpaces(_)
SkipSpaces(s) == IF s # << >> /\ Head(s) = 32 THEN SkipSpaces(Tail(s)) ELSE s

\* String::getLargeIntValue: optional sign, then decimal digits (values that
\* fit 31 bits here, so the high word of the int64 is its sign extension)
GetLargeIntValue(s) ==
    LET t == SkipSpaces(s) IN
    IF t # << >> /\ Head(t) = 45 THEN -DigitsValue(Tail(t), 0) ELSE DigitsValue(t, 0)

\* sizeof (BWAVChunk), packed
SizeofBWAVChunk == 256 + 32 + 32 + 10 + 8 + 4 + 4 + 2 + 64 + 190 + 1

\* a blank chunk of full size, whatever the map holds
BWAVChunk_createFrom_FullSize(values) == Zeros(((SizeofBWAVChunk + 3) \div 4) * 4)

\* BWAVChunk::createFrom.  The copyToUTF8 calls store a terminating NUL one
\* byte past their field, which the next store overwrites.
BWAVChunk_createFrom(values) ==
    LET history == Lookup(values, bwavCodingHistory)
        sizeNeeded == SizeofBWAVChunk + Utf8BytesNeeded(history) - 1
        size == ((sizeNeeded + 3) \div 4) * 4
        time == GetLargeIntValue(Lookup(values, bwavTimeReference))
        b == StoreAll(size,
               << << 0, CopyToUTF8(Lookup(values, bwavDescription), 257) >>,
                  << 256, CopyToUTF8(Lookup(values, bwavOriginator), 33) >>,
                  << 288, CopyToUTF8(Lookup(values, bwavOriginatorRef), 33) >>,
                  << 320, CopyToUTF8(Lookup(values, bwavOriginationDate), 11) >>,
                  << 330, CopyToUTF8(Lookup(values, bwavOriginationTime), 9) >>,
                  << 338, LE32(time) >>,
                  << 342, LE32(IF time < 0 THEN -1 ELSE 0) >>,
                  << 602, CopyToUTF8(history, Len(history) + 1) >> >>)
    IN  IF \/ Lookup(values, bwavDescription) # << >>
           \/ Lookup(values, bwavOriginator) # << >>
           \/ Lookup(values, bwavOriginationDate) # << >>
           \/ Lookup(values, bwavOriginationTime) # << >>
           \/ history # << >>
           \/ time # 0
        THEN b
        ELSE << >>

----------------------------------------------------------------------------
(* The output stream.  The bytes it holds up to the end of the header      *)
(* region are explicit; the sample bytes appended behind them are counted  *)
(* (dataBytes, a wide number), since one block can be hundreds of          *)
(* megabytes.  pos is a wide number too.                                   *)

\* total length of the stream
OutSize(o) == WAdd(W(Len(o.bytes)), o.dataBytes)

\* OutputStream::setPosition on a seekable stream
OutSetPosition(o, p) == [o EXCEPT !.pos = p]

\* OutputStream::write of explicit bytes (the header) at the current position;
\* torn is set if the write does not stay inside the explicit region
OutWrite(o, bs) ==
    LET inside == ~WLess(W(Len(o.bytes)), o.pos)
        staysInside == inside /\ WInt(o.pos) + Len(bs) <= Len(o.bytes)
    IN  [o EXCEPT !.bytes = IF inside THEN Poke(o.bytes, WInt(o.pos), bs) ELSE @,
                  !.pos = WAdd(o.pos, W(Len(bs))),
                  !.torn = @ \/ ~inside \/ (o.dataBytes # W(0) /\ ~staysInside)]

\* OutputStream::write of n sample bytes at the current position, of which
\* the stream takes the first k (k = n when the write succeeds)
OutWriteSamples(o, n, k) ==
    [o EXCEPT !.dataBytes = IF o.pos = OutSize(o) THEN WAdd(@, W(k)) ELSE @,
              !.pos = WAdd(o.pos, W(k)),
              !.firstData = IF o.firstData = << -1, 0 >> /\ k > 0 THEN o.pos ELSE @,
              !.torn = @ \/ (k > 0 /\ o.pos # OutSize(o))]

----------------------------------------------------------------------------
(* WavAudioFormatWriter.  lengthInSamples and bytesWritten are uint32,     *)
(* held as wide numbers below 2^32.                                        *)

\* (uint32) 0xfff00000, the ceiling of the overflow guard in write()
WriteCeiling == << 65520, 0 >>

\* const int depths[] = { 8, 16, 24, 32, 0 }
DepthsLiteral == << 8, 16, 24, 32, 0 >>

\* Array <int> (depths): the elements before the terminating 0
ArrayFromTerminated(values) ==
    { values[i] : i \in { j \in 1..Len(values) : \A k \in 1..j : values[k] # 0 } }

\* getPossibleBitDepths()
PossibleBitDepths == ArrayFromTerminated(DepthsLiteral)

DepthAccepted_Any(bits) == TRUE

\* if (getPossibleBitDepths().contains (bitsPerSample))
DepthAccepted(bits) == bits \in PossibleBitDepths

\* const int bytesPerFrame = numChannels * bitsPerSample / 8
WriterBytesPerFrame(w) == (w.numChannels * w.bitsPerSample) \div 8

RiffOverhead_Swapped(w) ==
    IF Len(w.bwavChunk) > 0 THEN 36 ELSE 44 + Len(w.bwavChunk)

\* what writeHeader adds to the data length for the RIFF size field
RiffOverhead(w) ==
    IF Len(w.bwavChunk) > 0 THEN 44 + Len(w.bwavChunk) ELSE 36

\* the bytes writeHeader hands to the stream.  bytesPerFrame * (int) sampleRate
\* is a product of two ints: the field holds its low 32 bits.
HeaderBytes(w) ==
    LET bytesPerFrame == WriterBytesPerFrame(w) IN
        RIFF
     \o WLE32(WU32(WAdd(WMul(w.lengthInSamples, bytesPerFrame), W(RiffOverhead(w)))))
     \o WAVE
     \o FMT \o LE32(16)
     \o LE16(IF w.bitsPerSample < 32 THEN 1 ELSE 3)
     \o LE16(w.numChannels)
     \o LE32(w.sampleRate)
     \o WLE32(WU32(WMul(W(w.sampleRate), bytesPerFrame)))
     \o LE16(bytesPerFrame)
     \o LE16(w.bitsPerSample)
     \o (IF Len(w.bwavChunk) > 0
         THEN BEXT \o LE32(Len(w.bwavChunk)) \o w.bwavChunk
         ELSE << >>)
     \o DATA
     \o WLE32(WU32(WMul(w.lengthInSamples, bytesPerFrame)))

WriteHeaderOut_NoSeek(w, o) == OutWrite(o, HeaderBytes(w))

\* writeHeader(): seek to the anchor, write the header; the stream after it
WriteHeaderOut(w, o) == OutWrite(OutSetPosition(o, w.headerPosition), HeaderBytes(w))

\* const int bytes = numChannels * numSamples * bitsPerSample / 8: the
\* operands are unsigned int, so the product is taken modulo 2^32; the
\* quotient is below 2^29 and is a small integer
BlockBytes(w, numSamples) ==
    WInt(WDiv(WU32(WMul(WU32(WMul(numSamples, w.numChannels)), w.bitsPerSample)), 8))

WriteRejected_NoLatch(w) == FALSE

\* if (writeFailed) return false;
WriteRejected(w) == w.writeFailed

\* bytesWritten + bytes >= (uint32) 0xfff00000, in uint32 arithmetic
ExceedsCeiling(w, bytes) == WGeq(WU32(WAdd(w.bytesWritten, W(bytes))), WriteCeiling)

NoWriter ==
    [ state |-> "none", sampleRate |-> 0, numChannels |-> 0, bitsPerSample |-> 0,
      usesFloatingPointData |-> FALSE, bwavChunk |-> << >>,
      lengthInSamples |-> W(0), bytesWritten |-> W(0), headerPosition |-> W(0),
      writeFailed |-> FALSE ]

\* what the calls on the writer were given and returned.  samplesOk and
\* bytesTaken are true totals (wide numbers that do not wrap): the samples of
\* the write calls that returned true, and the sample bytes the stream took
\* from them.  left and right are the samples those calls were given, where
\* the samples themselves are modelled; metadataValues is the map createFrom
\* was given.  replaced holds one record for each call of
\* replaceMetadataInFile, inspected whether the file was opened afterwards to
\* see what it holds.
NoWriteLog ==
    [ created |-> "not yet", bits |-> 0, metadataSize |-> 0,
      outBefore |-> << >>, outAfterCtor |-> << >>,
      calls |-> 0, lastResult |-> "none",
      failedAt |-> 0, samplesOk |-> W(0), bytesTaken |-> W(0), headerWrites |-> 0,
      left |-> << >>, right |-> << >>, metadataValues |-> << >>,
      replaced |-> << >>, inspected |-> FALSE ]

\* inputs of the model
BitsChoices == { 0, 8, 12, 16, 24, 32 }
ChannelChoices == { 1, 2 }
RateChoices == { 44100 }
PrefixChoices == { << >>, << 170, 187 >> }
\* metadata: none; every broadcast key with an empty field and the time
\* reference "0"; a description alone
BlankMetadata ==
    << << bwavDescription, << >> >>, << bwavOriginator, << >> >>,
       << bwavOriginatorRef, << >> >>, << bwavOriginationDate, << >> >>,
       << bwavOriginationTime, << >> >>, << bwavTimeReference, << 48 >> >>,
       << bwavCodingHistory, << >> >> >>
MetaChoices ==
    { << >>,
      BlankMetadata,
      << << bwavDescription, << 65 >> >> >> }

\* bytes of a large block (0x1fe00000) whose 32-bit product does not wrap
BigBlockBytes == << 8160, 0 >>
\* a sample count (2^26) whose product with 2 channels and 32 bits is 2^32
WrapSamples == << 1024, 0 >>

\* block sizes: none, one sample, a large block, and where the layout makes
\* the 32-bit product of write() wrap to 0, the sample count that does it
NumSamplesChoices(w) ==
    { W(0), W(1), WDiv(BigBlockBytes, WriterBytesPerFrame(w)) }
      \cup (IF BlockBytes(w, WrapSamples) = 0 THEN { WrapSamples } ELSE { })

\* no MouseCursor takes part
CursorsIdle ==
    /\ cursors = << >>
    /\ instances = << >>
    /\ standardCursors = << >>
    /\ mouseCursorLock = 0
    /\ threads = << >>
    /\ clog = << >>

\* no ListenerList takes part
ListIdle ==
    /\ listeners = << >>
    /\ iter = << >>
    /\ llog = << >>

\* placeholder values of the reader's variables while only the writer runs
ReaderIdle ==
    /\ reader = << >>
    /\ inp = << >>
    /\ walk = << >>
    /\ rlog = << >>
    /\ dest = << >>

WriterInit ==
    /\ ListIdle
    /\ CursorsIdle
    /\ ReaderIdle
    /\ writer = NoWriter
    /\ \E prefix \in PrefixChoices :
          out = [ bytes |-> prefix, pos |-> W(Len(prefix)), dataBytes |-> W(0),
                  firstData |-> << -1, 0 >>, torn |-> FALSE ]
    /\ wlog = NoWriteLog

\* WavAudioFormat::createWriterFor, with the constructor of the writer
CreateWriterFor(rate, numChannels, bits, metadataValues) ==
    /\ writer.state = "none"
    /\ wlog.created = "not yet"
    /\ IF DepthAccepted(bits)
       THEN LET w0 == [ NoWriter EXCEPT
                          !.state = "live",
                          !.sampleRate = rate,
                          !.numChannels = numChannels,
                          !.bitsPerSample = bits,
                          !.bwavChunk = IF Len(metadataValues) > 0
                                        THEN BWAVChunk_createFrom(metadataValues)
                                        ELSE << >>,
                          !.headerPosition = out.pos ]
                o1 == WriteHeaderOut(w0, out)
            IN  /\ writer' = [ w0 EXCEPT !.usesFloatingPointData = (bits = 32) ]
                /\ out' = o1
                /\ wlog' = [ wlog EXCEPT !.created = "writer", !.bits = bits,
                                         !.metadataSize = Len(metadataValues),
                                         !.metadataValues = metadataValues,
                                         !.outBefore = out.bytes,
                                         !.outAfterCtor = o1.bytes,
                                         !.headerWrites = 1 ]
       ELSE /\ wlog' = [ wlog EXCEPT !.created = "null", !.bits = bits,
                                     !.metadataSize = Len(metadataValues),
                                     !.outBefore = out.bytes ]
            /\ UNCHANGED << writer, out >>
    /\ UNCHANGED readerVars
    /\ UNCHANGED listVars
    /\ UNCHANGED cursorVars

\* WavAudioFormatWriter::write (numSamples samples per channel).  streamOk:
\* whether the stream accepts the block; partial: the bytes it takes when
\* it does not.  The sample conversion fills tempBlock only.
WriterWrite(numSamples, streamOk, partial) ==
    /\ writer.state = "live"
    /\ wlog.calls < MaxWrites
    /\ IF WriteRejected(writer)
       THEN /\ wlog' = [ wlog EXCEPT !.calls = @ + 1, !.lastResult = "false" ]
            /\ UNCHANGED << writer, out >>
       ELSE LET bytes == BlockBytes(writer, numSamples) IN
            IF ExceedsCeiling(writer, bytes) \/ ~streamOk
            THEN LET taken == IF ExceedsCeiling(writer, bytes) THEN 0
                              ELSE Min(partial, Max(bytes - 1, 0))
                     o1 == OutWriteSamples(out, bytes, taken)
                 IN  /\ out' = WriteHeaderOut(writer, o1)
                     /\ writer' = [ writer EXCEPT !.writeFailed = TRUE,
                                       !.usesFloatingPointData = (writer.bitsPerSample = 32) ]
                     /\ wlog' = [ wlog EXCEPT !.calls = @ + 1, !.lastResult = "false",
                                              !.failedAt = wlog.calls + 1,
                                              !.headerWrites = @ + 1 ]
            ELSE /\ out' = OutWriteSamples(out, bytes, bytes)
                 /\ writer' = [ writer EXCEPT
                                  !.bytesWritten = WU32(WAdd(@, W(bytes))),
                                  !.lengthInSamples = WU32(WAdd(@, numSamples)) ]
                 /\ wlog' = [ wlog EXCEPT !.calls = @ + 1, !.lastResult = "true",
                                          !.samplesOk = WAdd(@, numSamples),
                                          !.bytesTaken = WAdd(@, W(bytes)) ]
    /\ UNCHANGED readerVars
    /\ UNCHANGED listVars
    /\ UNCHANGED cursorVars

\* ~WavAudioFormatWriter
WriterDestroy ==
    /\ writer.state = "live"
    /\ out' = WriteHeaderOut(writer, out)
    /\ writer' = [ writer EXCEPT !.state = "destroyed",
                      !.usesFloatingPointData = (writer.bitsPerSample = 32) ]
    /\ wlog' = [ wlog EXCEPT !.headerWrites = @ + 1 ]
    /\ UNCHANGED readerVars
    /\ UNCHANGED listVars
    /\ UNCHANGED cursorVars

WriterCreate ==
    \E rate \in RateChoices, numChannels \in ChannelChoices,
       bits \in BitsChoices, metadataValues \in MetaChoices :
        CreateWriterFor(rate, numChannels, bits, metadataValues)

WriterWriteCall ==
    /\ writer.state = "live"
    /\ \E numSamples \in NumSamplesChoices(writer), streamOk \in BOOLEAN,
          partial \in { 0, 1 } :
            WriterWrite(numSamples, streamOk, partial)

WriterNext == WriterCreate \/ WriterWriteCall \/ WriterDestroy

SpecWriter == WriterInit /\ [][WriterNext]_vars

----------------------------------------------------------------------------
(* Properties of the writer, checked under SpecWriter.                     *)

\* the header fields as they stand in the stream, read back from its bytes
HeaderAnchor == WInt(writer.headerPosition)
RiffSizeField == WFromLE32(Slice(out.bytes, HeaderAnchor + 4, 4))
DataLenOffset ==
    IF Len(writer.bwavChunk) > 0 THEN 48 + Len(writer.bwavChunk) ELSE 40
DataTagField == Slice(out.bytes, HeaderAnchor + DataLenOffset - 4, 4)
DataLenField == WFromLE32(Slice(out.bytes, HeaderAnchor + DataLenOffset, 4))

\* C1: once a write call has returned false, every later write call returns
\* false, leaves the stream exactly as it was (no byte handed to it) and
\* leaves bytesWritten and lengthInSamples unchanged.
C1_FailureIsPermanent ==
    [][ (wlog.failedAt > 0 /\ wlog'.calls = wlog.calls + 1)
          => /\ wlog'.lastResult = "false"
             /\ out' = out
             /\ writer'.bytesWritten = writer.bytesWritten
             /\ writer'.lengthInSamples = writer.lengthInSamples ]_vars

\* a write call was made after the one that failed
C1_Witness == wlog.failedAt > 0 /\ wlog.calls > wlog.failedAt

\* C2: the overflow guard keeps the true total of the sample bytes accepted
\* by write calls below the ceiling 0xfff00000 (so a write that would reach
\* it is refused), and the uint32 counter bytesWritten equals that true
\* total, i.e. it never wrapped.
C2_OverflowGuard ==
    /\ WLess(wlog.bytesTaken, WriteCeiling)
    /\ writer.bytesWritten = wlog.bytesTaken

\* a write call returned true although the bytes already taken and its own
\* reach the ceiling
C2_AcceptedPastCeiling ==
    /\ wlog.lastResult = "true"
    /\ ~WLess(wlog.bytesTaken, WriteCeiling)

\* C3: after a header rewrite (the one of the failing write, the one of the
\* destructor) the header in the stream declares a data length of (samples of
\* the write calls that returned true) x bytesPerFrame and a RIFF size of that
\* plus 36, or plus 44 + bext size when a bext chunk is emitted.
C3_RewriteDeclaresTrueLength ==
    (writer.state = "destroyed" \/ writer.writeFailed) =>
        LET dataLength == WMul(wlog.samplesOk, WriterBytesPerFrame(writer)) IN
        /\ DataTagField = DATA
        /\ DataLenField = dataLength
        /\ RiffSizeField =
             WAdd(dataLength, W(IF Len(writer.bwavChunk) > 0
                                THEN 44 + Len(writer.bwavChunk) ELSE 36))

\* the rewrite does declare that length while the true data length,
\* (samples of the successful calls) x bytesPerFrame, is below 2^32
C3_HoldsBelowFourGiB ==
    WLess(WMul(wlog.samplesOk, WriterBytesPerFrame(writer)), << TwoTo16, 0 >>)
        => C3_RewriteDeclaresTrueLength

\* the header was rewritten after the calls that returned true had taken
\* 2^32 bytes or more
C3_RewrittenPastFourGiB ==
    /\ writer.state = "destroyed" \/ writer.writeFailed
    /\ ~WLess(WMul(wlog.samplesOk, WriterBytesPerFrame(writer)), << TwoTo16, 0 >>)

\* C4: a writer constructed on an empty stream with no metadata and given no
\* write call leaves, once constructed and still once destroyed, a stream of
\* exactly 44 bytes whose data length field is 0 and whose RIFF size field
\* is 36; the destructor's rewrite leaves the constructor's bytes as they were.
C4_EmptyFileIs44Bytes ==
    ( /\ wlog.created = "writer"
      /\ wlog.outBefore = << >>
      /\ wlog.metadataSize = 0
      /\ wlog.calls = 0 )
    =>  /\ OutSize(out) = W(44)
        /\ Len(out.bytes) = 44
        /\ out.bytes = wlog.outAfterCtor
        /\ Slice(out.bytes, 0, 4) = RIFF
        /\ Slice(out.bytes, 8, 4) = WAVE
        /\ Slice(out.bytes, 36, 4) = DATA
        /\ DataLenField = W(0)
        /\ RiffSizeField = W(36)

\* such a writer has been destroyed without a write call
C4_Witness ==
    /\ writer.state = "destroyed"
    /\ wlog.outBefore = << >>
    /\ wlog.metadataSize = 0
    /\ wlog.calls = 0

\* C5: createWriterFor returns no writer exactly when bitsPerSample is not one
\* of 8, 16, 24, 32, and then the output stream is as it was before the call.
C5_DepthValidation ==
    wlog.created # "not yet" =>
        /\ (wlog.created = "null") <=> (wlog.bits \notin { 8, 16, 24, 32 })
        /\ (wlog.created = "writer") <=> (wlog.bits \in { 8, 16, 24, 32 })
        /\ wlog.created = "null" =>
              /\ writer.state = "none"
              /\ out.bytes = wlog.outBefore
              /\ out.pos = W(Len(wlog.outBefore))
              /\ out.dataBytes = W(0)

\* createWriterFor has refused a depth, on a stream that held bytes
C5_Witness ==
    /\ wlog.created = "null"
    /\ wlog.bits = 12
    /\ wlog.outBefore # << >>

----------------------------------------------------------------------------
(* The input stream: bytes, a position (0 .. size) and whether it has been *)
(* deleted.  Reads past the end deliver the bytes there are; readInt and   *)
(* readShort return 0 when they get fewer bytes than they ask for;         *)
(* setPosition keeps the position inside the stream.                       *)

InSize(i) == Len(i.bytes)
InAvailable(i) == InSize(i) - i.pos

\* InputStream::isExhausted
InIsExhausted(i) == i.pos >= InSize(i)

\* the stream after n bytes were asked of it
InAdvance(i, n) == [i EXCEPT !.pos = Min(i.pos + n, InSize(i))]

\* InputStream::readInt as int, as uint32 (a wide number), and readShort
InReadInt(i) ==
    IF InAvailable(i) >= 4 THEN IntFromLE32(Slice(i.bytes, i.pos, 4)) ELSE 0
InReadUInt(i) ==
    IF InAvailable(i) >= 4 THEN WFromLE32(Slice(i.bytes, i.pos, 4)) ELSE W(0)
InReadShort(i) ==
    IF InAvailable(i) >= 2 THEN ShortFromLE16(Slice(i.bytes, i.pos, 2)) ELSE 0

\* input->readInt() == chunkName (name)
InReadsTag(i, name) == InAvailable(i) >= 4 /\ Slice(i.bytes, i.pos, 4) = name

\* the number of bytes InputStream::read delivers when asked for n (wide)
InDelivers(i, n) ==
    IF WLess(W(InAvailable(i)), n) THEN InAvailable(i) ELSE WInt(n)

\* InputStream::setPosition (p), p a wide number
InSetPosition(i, p) ==
    [i EXCEPT !.pos = IF WLess(W(InSize(i)), p) THEN InSize(i)
                      ELSE IF WLess(p, W(0)) THEN 0 ELSE WInt(p)]

----------------------------------------------------------------------------
(* Decoding of the metadata chunks.                                        *)

\* String (n) for an unsigned or non-negative 64-bit n held as a wide number
RECURSIVE WDigits(_)
WDigits(a) ==
    IF a = W(0) THEN << >>
    ELSE LET q == WDiv(a, 10) IN WDigits(q) \o << 48 + WInt(WSub(a, WMul(q, 10))) >>
WDecimal(a) == IF a = W(0) THEN << 48 >> ELSE WDigits(a)

\* String::fromUTF8 (buffer, size) for ASCII text: the characters before the
\* first NUL among the size bytes at 0-based offset off of buf
UntilNul(bs) ==
    LET nuls == { i \in 1..Len(bs) : bs[i] = 0 }
    IN  IF nuls = { } THEN bs
        ELSE SubSeq(bs, 1, (CHOOSE i \in nuls : \A j \in nuls : i <= j) - 1)
FromUTF8(buf, off, size) == UntilNul(Slice(buf, off, size))

\* BWAVChunk::copyTo; buf is the zero-filled buffer the chunk was read into.
\* The time reference is decoded for values below 2^47.
BWAVChunk_copyTo(values, buf) ==
    LET timeLow == WFromLE32(Slice(buf, 338, 4))
        timeHigh == WFromLE32(Slice(buf, 342, 4))
        time == << timeHigh[2] * TwoTo16 + timeLow[1], timeLow[2] >>
        v1 == MapSet(values, bwavDescription, FromUTF8(buf, 0, 256))
        v2 == MapSet(v1, bwavOriginator, FromUTF8(buf, 256, 32))
        v3 == MapSet(v2, bwavOriginatorRef, FromUTF8(buf, 288, 32))
        v4 == MapSet(v3, bwavOriginationDate, FromUTF8(buf, 320, 10))
        v5 == MapSet(v4, bwavOriginationTime, FromUTF8(buf, 330, 8))
        v6 == MapSet(v5, bwavTimeReference, WDecimal(time))
    IN  MapSet(v6, bwavCodingHistory, FromUTF8(buf, 602, Len(buf) - 602))

\* sizeof (SMPLChunk): nine uint32 fields and one loop of six
SizeofSMPLChunk == 9 * 4 + 6 * 4

SmplFieldNames ==
    << "Manufacturer", "Product", "SamplePeriod", "MidiUnityNote",
       "MidiPitchFraction", "SmpteFormat", "SmpteOffset", "NumSampleLoops",
       "SamplerData" >>
LoopFieldNames ==
    << "Loop%dIdentifier", "Loop%dType", "Loop%dStart", "Loop%dEnd",
       "Loop%dFraction", "Loop%dPlayCount" >>

RECURSIVE SmplSetFields(_, _, _)
SmplSetFields(values, buf, k) ==
    IF k > Len(SmplFieldNames) THEN values
    ELSE SmplSetFields(
            MapSet(values, << SmplFieldNames[k] >>,
                   WDecimal(WFromLE32(Slice(buf, 4 * (k - 1), 4)))),
            buf, k + 1)

RECURSIVE SmplSetLoop(_, _, _, _)
SmplSetLoop(values, buf, i, k) ==
    IF k > Len(LoopFieldNames) THEN values
    ELSE SmplSetLoop(
            MapSet(values, << LoopFieldNames[k], i >>,
                   WDecimal(WFromLE32(Slice(buf, 36 + 24 * i + 4 * (k - 1), 4)))),
            buf, i, k + 1)

\* a guard that lets a record end one byte past the chunk
LoopFits_OneByteLate(i, totalSize) == ~(36 + 24 * (i + 1) > totalSize + 1)

\* the guard of the loop of SMPLChunk::copyTo: loop record i ends inside the chunk
LoopFits(i, totalSize) == ~(36 + 24 * (i + 1) > totalSize)

RECURSIVE SmplSetLoops(_, _, _, _, _)
SmplSetLoops(values, buf, i, numSampleLoops, totalSize) ==
    IF ~WLess(W(i), numSampleLoops) \/ ~LoopFits(i, totalSize) THEN values
    ELSE SmplSetLoops(SmplSetLoop(values, buf, i, 1), buf, i + 1,
                      numSampleLoops, totalSize)

\* SMPLChunk::copyTo
SMPLChunk_copyTo(values, buf, totalSize) ==
    SmplSetLoops(SmplSetFields(values, buf, 1), buf, 0,
                 WFromLE32(Slice(buf, 28, 4)), totalSize)

\* juce_calloc (jmax (length + 1, sizeof chunk)) after input->read (buf, length)
\* delivered the n bytes read
ChunkBuffer(read, length, sizeofChunk) ==
    read \o Zeros(Max(length + 1, sizeofChunk) - Len(read))

----------------------------------------------------------------------------
(* WavAudioFormatReader: the constructor's chunk walk.                     *)

\* the fields of AudioFormatReader and WavAudioFormatReader after their
\* initialisers.  bytesPerFrame and dataChunkStart have none: bytesPerFrame
\* holds whatever the memory held, which bytesPerFrameFixed = FALSE stands for
\* until the first read of it picks the value.
NewReader ==
    [ state |-> "constructing", sampleRate |-> 0, bitsPerSample |-> 0,
      lengthInSamples |-> W(0), numChannels |-> 0,
      usesFloatingPointData |-> FALSE, metadataValues |-> << >>,
      input |-> "stream",
      bytesPerFrame |-> 0, bytesPerFrameFixed |-> FALSE,
      dataChunkStart |-> 0, dataLength |-> W(0),
      bwavChunkStart |-> 0, bwavSize |-> W(0) ]

\* values an uninitialised int can hold
GarbageInts == { -1, 0, 3 }

\* int64 / int for a non-negative wide dividend and a positive divisor
WDivInt(a, d) ==
    IF a[1] < 32768 THEN W(WInt(a) \div d) ELSE WDiv(a, d)

\* const int64 chunkEnd = input->getPosition() + length + (length & 1)
ChunkEnd_NoPadding(afterHeader, length) == WAdd(W(afterHeader), length)

ChunkEnd_InsideHeader(afterHeader, length) == W(afterHeader - 4)

ChunkEnd(afterHeader, length) ==
    WAdd(WAdd(W(afterHeader), length), W(length[2] % 2))

IsKnownChunk(id) == id \in { FMT, DATA, BEXT, SMPL }

NoAdvanceBreak_AnyChunk(id, chunkEnd, pos) == ~WLess(W(pos), chunkEnd)

\* the last branch of the dispatch: else if (chunkEnd <= input->getPosition()) break;
NoAdvanceBreak(id, chunkEnd, pos) ==
    ~IsKnownChunk(id) /\ ~WLess(W(pos), chunkEnd)

\* 8 * n in int arithmetic (the product keeps its low 32 bits)
EightTimes(n) ==
    LET low == n % (TwoTo16 * 8192)
    IN  IF low >= TwoTo16 * 4096 THEN (low - TwoTo16 * 8192) * 8 ELSE low * 8

\* the fmt branch.  A division by zero traps (trap) or, on a target whose
\* divide instruction does not trap, yields 0.
FmtHandler(r, i, trap) ==
    LET format == InReadShort(i)
        i1 == InAdvance(i, 2)
        numChans == InReadShort(i1)
        i2 == InAdvance(i1, 2)
        rate == InReadInt(i2)
        i3 == InAdvance(i2, 4)
        bytesPerSec == InReadInt(i3)
        i4 == InAdvance(i3, 4)
        bytesPerFrame == IF rate = 0 THEN 0 ELSE CDiv(bytesPerSec, rate)
        bitsPerSample == IF numChans = 0 THEN 0 ELSE CDiv(EightTimes(bytesPerFrame), numChans)
    IN  [ fault |-> trap /\ (rate = 0 \/ numChans = 0),
          format |-> format,
          inp |-> i4,
          reader |-> [ r EXCEPT
                         !.sampleRate = rate,
                         !.numChannels = numChans,
                         !.bitsPerSample = bitsPerSample,
                         !.usesFloatingPointData = (@ \/ format = 3),
                         !.bytesPerFrame = IF format # 3 /\ format # 1 THEN 0
                                           ELSE bytesPerFrame,
                         !.bytesPerFrameFixed = TRUE ] ]

\* the data branch; garbage is what bytesPerFrame holds if nothing has set it
DataHandler(r, i, length, garbage) ==
    LET bytesPerFrame == IF r.bytesPerFrameFixed THEN r.bytesPerFrame ELSE garbage IN
    [ fault |-> FALSE, format |-> 0, inp |-> i,
      reader |-> [ r EXCEPT
                     !.dataLength = length,
                     !.dataChunkStart = i.pos,
                     !.lengthInSamples = IF bytesPerFrame > 0
                                         THEN WDivInt(length, bytesPerFrame)
                                         ELSE W(0),
                     !.bytesPerFrame = bytesPerFrame,
                     !.bytesPerFrameFixed = TRUE ] ]

\* the bext branch
BextHandler(r, i, length) ==
    LET n == InDelivers(i, length)
        buf == ChunkBuffer(Slice(i.bytes, i.pos, n), WInt(length), SizeofBWAVChunk)
    IN  [ fault |-> FALSE, format |-> 0, inp |-> InAdvance(i, n),
          reader |-> [ r EXCEPT
                         !.bwavChunkStart = i.pos,
                         !.bwavSize = length,
                         !.metadataValues = BWAVChunk_copyTo(@, buf) ] ]

\* the smpl branch
SmplHandler(r, i, length) ==
    LET n == InDelivers(i, length)
        buf == ChunkBuffer(Slice(i.bytes, i.pos, n), WInt(length), SizeofSMPLChunk)
    IN  [ fault |-> FALSE, format |-> 0, inp |-> InAdvance(i, n),
          reader |-> [ r EXCEPT
                         !.metadataValues = SMPLChunk_copyTo(@, buf, WInt(length)) ] ]

\* the dispatch on the chunk identifier
Dispatch(r, i, id, length, garbage, trap) ==
    IF id = FMT THEN FmtHandler(r, i, trap)
    ELSE IF id = DATA THEN DataHandler(r, i, length, garbage)
    ELSE IF id = BEXT THEN BextHandler(r, i, length)
    ELSE IF id = SMPL THEN SmplHandler(r, i, length)
    ELSE [ fault |-> FALSE, format |-> 0, inp |-> i, reader |-> r ]

NoIteration ==
    [ posAtTest |-> 0, exhaustedAtTest |-> FALSE, dispatched |-> FALSE,
      id |-> << >>, afterHeader |-> 0, length |-> W(0), posAfterHandler |-> 0,
      chunkEnd |-> W(0), stopped |-> FALSE ]

NoReadLog ==
    [ result |-> "pending", deleteStreamIfOpeningFails |-> FALSE,
      gotRiff |-> FALSE, gotWave |-> FALSE,
      iterations |-> 0, cur |-> NoIteration, prev |-> NoIteration,
      fmtSeen |-> FALSE, lastFormat |-> 0,
      bextSeen |-> FALSE, bextLength |-> W(0),
      read |-> [ called |-> FALSE, outcome |-> "none", numDestChannels |-> 0,
                 startOffsetInDestBuffer |-> 0, startSampleInFile |-> 0,
                 numSamples |-> 0, posBefore |-> 0 ] ]

\* WavAudioFormatReader's constructor up to the chunk loop: the RIFF tag, the
\* length of the outer chunk, the WAVE tag
ReaderOpen ==
    /\ walk.pc = "new"
    /\ IF InReadsTag(inp, RIFF)
       THEN LET i1 == InAdvance(inp, 4)
                len == InReadUInt(i1)
                i2 == InAdvance(i1, 4)
                end == WAdd(W(i2.pos), len)
            IN  /\ inp' = InAdvance(i2, 4)
                /\ walk' = [ walk EXCEPT
                               !.pc = IF InReadsTag(i2, WAVE) THEN "loop" ELSE "parsed",
                               !.end = end ]
                /\ rlog' = [ rlog EXCEPT !.gotRiff = TRUE,
                                         !.gotWave = InReadsTag(i2, WAVE) ]
       ELSE /\ inp' = InAdvance(inp, 4)
            /\ walk' = [ walk EXCEPT !.pc = "parsed" ]
            /\ UNCHANGED rlog
    /\ reader' = NewReader
    /\ UNCHANGED dest
    /\ UNCHANGED writerVars
    /\ UNCHANGED listVars
    /\ UNCHANGED cursorVars

\* one pass of  while (input->getPosition() < end && ! input->isExhausted())
WalkStep(garbage, trap) ==
    /\ walk.pc = "loop"
    /\ IF ~(WLess(W(inp.pos), walk.end) /\ ~InIsExhausted(inp))
       THEN /\ walk' = [ walk EXCEPT !.pc = "parsed" ]
            /\ rlog' = [ rlog EXCEPT
                           !.iterations = @ + 1,
                           !.prev = rlog.cur,
                           !.cur = [ NoIteration EXCEPT
                                       !.posAtTest = inp.pos,
                                       !.exhaustedAtTest = InIsExhausted(inp),
                                       !.stopped = TRUE ] ]
            /\ UNCHANGED << reader, inp >>
       ELSE LET id == Slice(inp.bytes, inp.pos, IF InAvailable(inp) >= 4 THEN 4 ELSE 0)
                i1 == InAdvance(inp, 4)
                length == InReadUInt(i1)
                i2 == InAdvance(i1, 4)
                chunkEnd == ChunkEnd(i2.pos, length)
                h == Dispatch(reader, i2, id, length, garbage, trap)
                break == NoAdvanceBreak(id, chunkEnd, h.inp.pos)
            IN  /\ reader' = h.reader
                /\ inp' = IF h.fault \/ break THEN h.inp
                          ELSE InSetPosition(h.inp, chunkEnd)
                /\ walk' = [ walk EXCEPT
                               !.pc = IF h.fault THEN "fault"
                                      ELSE IF break THEN "parsed" ELSE "loop",
                               !.hasGotType = @ \/ id = FMT,
                               !.hasGotData = @ \/ id = DATA ]
                /\ rlog' = [ rlog EXCEPT
                               !.iterations = @ + 1,
                               !.prev = rlog.cur,
                               !.cur = [ posAtTest |-> inp.pos,
                                         exhaustedAtTest |-> FALSE,
                                         dispatched |-> TRUE,
                                         id |-> id,
                                         afterHeader |-> i2.pos,
                                         length |-> length,
                                         posAfterHandler |-> h.inp.pos,
                                         chunkEnd |-> chunkEnd,
                                         stopped |-> break ],
                               !.fmtSeen = @ \/ id = FMT,
                               !.lastFormat = IF id = FMT THEN h.format ELSE @,
                               !.bextSeen = @ \/ id = BEXT,
                               !.bextLength = IF id = BEXT THEN length ELSE @ ]
    /\ UNCHANGED dest
    /\ UNCHANGED writerVars
    /\ UNCHANGED listVars
    /\ UNCHANGED cursorVars

\* if (r->sampleRate == 0)
OpenFailed(r) == r.sampleRate = 0

DetachStream_Never(deleteStreamIfOpeningFails) == FALSE

\* if (! deleteStreamIfOpeningFails) r->input = 0;
DetachStream(deleteStreamIfOpeningFails) == ~deleteStreamIfOpeningFails

\* ~AudioFormatReader: delete input
ReaderDestructorDeletes(r) == r.input = "stream"

\* WavAudioFormat::createReaderFor, after the constructor has returned
CreateReaderFor(deleteStreamIfOpeningFails) ==
    /\ walk.pc = "parsed"
    /\ IF OpenFailed(reader)
       THEN LET r1 == IF DetachStream(deleteStreamIfOpeningFails)
                      THEN [ reader EXCEPT !.input = "null" ] ELSE reader
            IN  /\ reader' = [ r1 EXCEPT !.state = "deleted" ]
                /\ inp' = [ inp EXCEPT !.deleted = ReaderDestructorDeletes(r1) ]
                /\ rlog' = [ rlog EXCEPT !.result = "null",
                               !.deleteStreamIfOpeningFails = deleteStreamIfOpeningFails ]
       ELSE /\ reader' = [ reader EXCEPT !.state = "open" ]
            /\ rlog' = [ rlog EXCEPT !.result = "reader",
                           !.deleteStreamIfOpeningFails = deleteStreamIfOpeningFails ]
            /\ UNCHANGED inp
    /\ walk' = [ walk EXCEPT !.pc = "returned" ]
    /\ UNCHANGED dest
    /\ UNCHANGED writerVars
    /\ UNCHANGED listVars
    /\ UNCHANGED cursorVars

----------------------------------------------------------------------------
(* The streams the reader is opened on.                                    *)

MaxChunks == 2

FmtBody(format, numChans, rate, bytesPerSec, bits) ==
    LE16(format) \o LE16(numChans) \o LE32(rate) \o LE32(bytesPerSec)
        \o LE16(IF rate = 0 THEN 0 ELSE bytesPerSec \div rate) \o LE16(bits)

\* a chunk header declaring length bytes, then the bytes that are present
ChunkBytes(id, length, body) == id \o LE32(length) \o body

LIST == << 76, 73, 83, 84 >>

ChunkChoices ==
    { ChunkBytes(FMT, 16, FmtBody(1, 1, 4, 4, 8)),      \* PCM, mono, 8 bit
      ChunkBytes(FMT, 16, FmtBody(3, 1, 4, 16, 32)),    \* IEEE float
      ChunkBytes(FMT, 16, FmtBody(2, 1, 4, 4, 8)),      \* a compressed codec
      ChunkBytes(FMT, 16, FmtBody(1, 1, 0, 4, 8)),      \* sample rate 0
      ChunkBytes(FMT, 16, FmtBody(1, 0, 4, 4, 8)),      \* no channels
      ChunkBytes(FMT, 0, << >>),                        \* declares no body
      ChunkBytes(DATA, 3, << 1, 2, 3, 0 >>),            \* odd length, padded
      ChunkBytes(DATA, 0, << >>),
      ChunkBytes(DATA, 8, << 1, 2 >>),                  \* declares more than is there
      ChunkBytes(LIST, 2, << 7, 7 >>),
      ChunkBytes(LIST, 1, << 7, 0 >>),
      ChunkBytes(LIST, 0, << >>),
      ChunkBytes(BEXT, 2, << 72, 105 >>),
      ChunkBytes(BEXT, 1, << 72, 0 >>),
      ChunkBytes(BEXT, 0, << >>),
      ChunkBytes(SMPL, 4, << 9, 0, 0, 0 >>),
      << 102, 109 >> }                                  \* half a chunk identifier

RECURSIVE ChunkLists(_)
ChunkLists(n) ==
    IF n = 0 THEN { << >> }
    ELSE LET shorter == ChunkLists(n - 1)
         IN  shorter \cup { l \o << c >> : l \in { x \in shorter : Len(x) = n - 1 },
                                           c \in ChunkChoices }

RECURSIVE Concat(_)
Concat(l) == IF l = << >> THEN << >> ELSE Head(l) \o Concat(Tail(l))

\* the lengths the outer chunk declares: what follows, what ends with the
\* first chunk, and far more than the stream holds
RiffLengths(chunks) ==
    { W(4 + Len(Concat(chunks))),
      W(4 + (IF chunks = << >> THEN 0 ELSE Len(chunks[1]))),
      << 65535, 65535 >> }

WaveFiles ==
    UNION { { RIFF \o WLE32(len) \o WAVE \o Concat(chunks) : len \in RiffLengths(chunks) } :
              chunks \in ChunkLists(MaxChunks) }

NotWaveFiles ==
    { << >>, << 82, 73 >>, RIFF,
      << 70, 79, 82, 77 >> \o LE32(20) \o WAVE
          \o ChunkBytes(FMT, 16, FmtBody(1, 1, 4, 4, 8)),
      RIFF \o LE32(28) \o << 65, 86, 73, 32 >>
          \o ChunkBytes(FMT, 16, FmtBody(1, 1, 4, 4, 8)) }

NewWalk == [ pc |-> "new", end |-> W(0), hasGotType |-> FALSE, hasGotData |-> FALSE ]

WriterIdle ==
    /\ writer = NoWriter
    /\ out = [ bytes |-> << >>, pos |-> W(0), dataBytes |-> W(0),
               firstData |-> << -1, 0 >>, torn |-> FALSE ]
    /\ wlog = NoWriteLog

ReaderInit ==
    /\ ListIdle
    /\ CursorsIdle
    /\ WriterIdle
    /\ inp \in { [ bytes |-> b, pos |-> 0, deleted |-> FALSE ] :
                    b \in WaveFiles \cup NotWaveFiles }
    /\ reader = NewReader
    /\ walk = NewWalk
    /\ rlog = NoReadLog
    /\ dest = << >>

WalkNext == \E garbage \in GarbageInts, trap \in BOOLEAN : WalkStep(garbage, trap)

CreateReaderForNext ==
    \E deleteStreamIfOpeningFails \in BOOLEAN : CreateReaderFor(deleteStreamIfOpeningFails)

ReaderNext ==
    \/ ReaderOpen
    \/ WalkNext
    \/ CreateReaderForNext

SpecReader == ReaderInit /\ [][ReaderNext]_vars

----------------------------------------------------------------------------
(* Properties of the chunk walk and of createReaderFor.                    *)

\* the walk has ended: its loop test failed or a break left the loop
WalkStopped == walk.pc \in { "parsed", "returned" }

\* C6: after a chunk of any identifier is dispatched, the next chunk header
\* is read at (position after that chunk's 8-byte header) + declared length
\* + (1 if the length is odd), however many bytes the handler consumed.
C6_NextHeaderAtChunkEnd ==
    (rlog.prev.dispatched /\ rlog.cur.dispatched) =>
        W(rlog.cur.posAtTest) =
            WAdd(WAdd(W(rlog.prev.afterHeader), rlog.prev.length),
                 W(IF rlog.prev.length[2] % 2 = 1 THEN 1 ELSE 0))

\* a handler read past the declared end of its chunk (a fmt chunk that
\* declares no body) and the next header was read after it
C6_Witness ==
    /\ rlog.prev.dispatched /\ rlog.cur.dispatched
    /\ WLess(rlog.prev.chunkEnd, W(rlog.prev.posAfterHandler))
    /\ rlog.prev.length[2] % 2 = 0

\* a handler read less than its odd-length chunk declares and the next
\* header was read after the padding byte
C6_WitnessOdd ==
    /\ rlog.prev.dispatched /\ rlog.cur.dispatched
    /\ WLess(W(rlog.prev.posAfterHandler), rlog.prev.chunkEnd)
    /\ rlog.prev.length[2] % 2 = 1

\* the chunk just handled has an end that is not past the read position
EndDoesNotAdvance(it) ==
    it.dispatched /\ ~WLess(W(it.posAfterHandler), it.chunkEnd)

\* C7 as stated: the walk stops exactly when the position reaches the outer
\* chunk's end, the stream is exhausted, or the chunk just handled, whatever
\* its identifier, has an end that does not advance past the read position.
C7_StopsOnAnyNonAdvancingChunk ==
    (rlog.iterations > 0 /\ walk.pc # "fault") =>
        (WalkStopped <=>
            \/ ~WLess(W(rlog.cur.posAtTest), walk.end)
            \/ rlog.cur.exhaustedAtTest
            \/ EndDoesNotAdvance(rlog.cur))

\* C7 (amended): the walk stops exactly when the position reaches the outer
\* chunk's end, the stream is exhausted, or an unrecognised chunk has an end
\* that does not advance past the read position; a fmt, data, bext or smpl
\* chunk never stops the walk.
C7_StopsOnNonAdvancingUnknownChunk ==
    (rlog.iterations > 0 /\ walk.pc # "fault") =>
        (WalkStopped <=>
            \/ ~WLess(W(rlog.cur.posAtTest), walk.end)
            \/ rlog.cur.exhaustedAtTest
            \/ (EndDoesNotAdvance(rlog.cur) /\ rlog.cur.id \notin { FMT, DATA, BEXT, SMPL }))

\* a zero-length unrecognised chunk stopped the walk before the outer
\* chunk's end with bytes still to read
C7_Witness ==
    /\ WalkStopped /\ EndDoesNotAdvance(rlog.cur)
    /\ rlog.cur.id = LIST
    /\ WLess(W(inp.pos), walk.end) /\ ~InIsExhausted(inp)

\* a bext chunk read to its end and the walk went on to the next chunk
C7_KnownChunkGoesOn ==
    /\ rlog.prev.id = BEXT /\ EndDoesNotAdvance(rlog.prev)
    /\ rlog.cur.dispatched

\* C8: createReaderFor returns no reader when the stream does not start
\* with RIFF, or its form type is not WAVE, or the walk meets no fmt chunk;
\* with deleteStreamIfOpeningFails false the stream is not destroyed.
C8_NoReaderWithoutFormat ==
    (rlog.result # "pending" /\ (~rlog.gotRiff \/ ~rlog.gotWave \/ ~rlog.fmtSeen)) =>
        /\ rlog.result = "null"
        /\ reader.state = "deleted"
        /\ ~rlog.deleteStreamIfOpeningFails => ~inp.deleted

\* a WAVE file with chunks but no fmt chunk was refused and its stream kept
C8_Witness ==
    /\ rlog.result = "null" /\ ~rlog.deleteStreamIfOpeningFails
    /\ rlog.gotRiff /\ rlog.gotWave /\ ~rlog.fmtSeen
    /\ rlog.iterations > 1
    /\ ~inp.deleted

\* C9: when the fmt chunk's format tag is neither 1 nor 3, bytesPerFrame is
\* 0 and createReaderFor returns no reader.
C9_UnsupportedTagIsUnopenable ==
    (rlog.result # "pending" /\ rlog.fmtSeen /\ rlog.lastFormat \notin { 1, 3 }) =>
        /\ reader.bytesPerFrame = 0
        /\ rlog.result = "null"

\* the part of C9 the code keeps: such a tag leaves bytesPerFrame at 0
C9_TagZeroesBytesPerFrame ==
    (rlog.result # "pending" /\ rlog.fmtSeen /\ rlog.lastFormat \notin { 1, 3 }) =>
        reader.bytesPerFrame = 0

\* a reader was returned for a file whose only fmt chunk has tag 2
C9_ReaderReturnedForTag2 ==
    /\ rlog.result = "reader" /\ rlog.lastFormat = 2
    /\ reader.bytesPerFrame = 0 /\ reader.sampleRate # 0

----------------------------------------------------------------------------
(* WavAudioFormatReader::readSamples.                                      *)

\* const int tempBufSize = 480 * 3 * 4
tempBufSize == 480 * 3 * 4

\* the conversion of one sample of the temporary buffer to a 32-bit int
\*   8 bit:  ((int) *src - 128) << 24
\*  16 bit:  (int) (unsigned short) *src << 16, kept to 32 bits
\*  24 bit:  littleEndian24Bit (src) << 8
\*  32 bit:  the four bytes as they are
DecodeSample(bits, bs) ==
    IF bits = 8 THEN (bs[1] - 128) * 16777216
    ELSE IF bits = 16 THEN ShortFromLE16(bs) * TwoTo16
    ELSE IF bits = 24
         THEN (bs[1] + 256 * bs[2]
                 + TwoTo16 * (IF bs[3] >= 128 THEN bs[3] - 256 ELSE bs[3])) * 256
    ELSE IntFromLE32(bs)

\* a destination channel: a null pointer, or the caller's array of ints
NullChannel == [ null |-> TRUE, mem |-> << >> ]

\* the channel after n samples of size bytes, the first at 0-based offset
\* first of temp and one every stride bytes, were stored from index off on
StoreSamples(chan, temp, bits, n, first, stride, off) ==
    [ chan EXCEPT !.mem =
        [ k \in 1..Len(chan.mem) |->
            IF k - 1 - off >= 0 /\ k - 1 - off < n
            THEN DecodeSample(bits, Slice(temp, first + (k - 1 - off) * stride, bits \div 8))
            ELSE chan.mem[k] ] ]

\* whether the conversion loops store through left and through right: with
\* one source channel always through left; with more, through left unless it
\* is null, through right when left is null or right is not
StoresThroughLeft(numChannels, left, right) ==
    IF numChannels > 1 THEN ~left.null ELSE TRUE
StoresThroughRight(numChannels, left, right) ==
    IF numChannels > 1 THEN left.null \/ ~right.null ELSE FALSE

\* one block of the loop converted into the destination; fault when a loop
\* stores through a null pointer
ConvertBlock(r, temp, n, left, right, off) ==
    LET bits == r.bitsPerSample
        size == bits \div 8
        stride == IF r.numChannels > 1 THEN 2 * size ELSE size
        toLeft == StoresThroughLeft(r.numChannels, left, right)
        toRight == StoresThroughRight(r.numChannels, left, right)
    IN  IF bits \notin { 8, 16, 24, 32 } \/ n <= 0
        THEN [ left |-> left, right |-> right, fault |-> FALSE ]
        ELSE IF (toLeft /\ left.null) \/ (toRight /\ right.null)
        THEN [ left |-> left, right |-> right, fault |-> TRUE ]
        ELSE [ left |-> IF toLeft
                        THEN StoreSamples(left, temp, bits, n, 0, stride, off)
                        ELSE left,
               right |-> IF toRight
                         THEN StoreSamples(right, temp, bits, n, size, stride, off)
                         ELSE right,
               fault |-> FALSE ]

\* const int numThisTime = jmin (tempBufSize / bytesPerFrame, numSamples)
NumThisTime(bytesPerFrame, numSamples) ==
    Min(tempBufSize \div bytesPerFrame, numSamples)

\* the loop  while (numSamples > 0)  from the state st = [ inp, left, right,
\* off, numSamples, fault, stuck ]; it is entered with bytesPerFrame > 0.
\* A pass that reads no sample leaves every variable of the loop as it was:
\* the loop is stuck and the function does not return.
RECURSIVE ReadLoop(_, _)
ReadLoop(r, st) ==
    IF st.numSamples <= 0 \/ st.fault \/ st.stuck THEN st
    ELSE IF NumThisTime(r.bytesPerFrame, st.numSamples) = 0 THEN [ st EXCEPT !.stuck = TRUE ]
    ELSE LET numThisTime == NumThisTime(r.bytesPerFrame, st.numSamples)
             want == numThisTime * r.bytesPerFrame
             got == Slice(st.inp.bytes, st.inp.pos, want)
             temp == got \o Zeros(want - Len(got))
             c == ConvertBlock(r, temp, numThisTime, st.left, st.right, st.off)
         IN  ReadLoop(r, [ inp |-> InAdvance(st.inp, want),
                           left |-> c.left, right |-> c.right,
                           off |-> st.off + numThisTime,
                           numSamples |-> st.numSamples - numThisTime,
                           fault |-> c.fault, stuck |-> FALSE ])

\* the zero-fill after the loop:  if (numSamples > 0) zeromem (...)
ZeroTail(chan, off, numSamples) ==
    IF chan.null \/ numSamples <= 0 THEN chan
    ELSE [ chan EXCEPT !.mem =
             [ k \in 1..Len(chan.mem) |->
                 IF k - 1 >= off /\ k - 1 < off + numSamples THEN 0 ELSE chan.mem[k] ] ]

\* numSamples = (int) jmin ((int64) numSamples, lengthInSamples - startSampleInFile)
ClampToLength(r, startSampleInFile, numSamples) ==
    Min(numSamples, WInt(r.lengthInSamples) - startSampleInFile)

\* readSamples (destSamples, numDestChannels, startOffsetInDestBuffer,
\* startSampleInFile, numSamples) with destSamples[0] = dest0 and
\* destSamples[1] = dest1: the stream, the two channels, and the outcome:
\* "true" (returned), "fault" (a store through a null pointer), "trap"
\* (tempBufSize / bytesPerFrame with bytesPerFrame 0), "stuck" (the loop
\* never ends)
ReadSamples(r, i, dest0, dest1, numDestChannels, startOffsetInDestBuffer, startSampleInFile, numSamples) ==
    LET clamped == ClampToLength(r, startSampleInFile, numSamples)
        right == IF numDestChannels > 1 THEN dest1 ELSE NullChannel
        seeked == InSetPosition(i, W(r.dataChunkStart + startSampleInFile * r.bytesPerFrame))
    IN  IF clamped <= 0
        THEN [ inp |-> i, dest0 |-> dest0, dest1 |-> dest1, outcome |-> "true" ]
        ELSE IF r.bytesPerFrame <= 0
        THEN [ inp |-> seeked, dest0 |-> dest0, dest1 |-> dest1, outcome |-> "trap" ]
        ELSE LET st == ReadLoop(r, [ inp |-> seeked, left |-> dest0, right |-> right,
                                     off |-> startOffsetInDestBuffer,
                                     numSamples |-> clamped, fault |-> FALSE,
                                     stuck |-> FALSE ])
             IN  [ inp |-> st.inp,
                   dest0 |-> ZeroTail(st.left, st.off, st.numSamples),
                   dest1 |-> IF numDestChannels > 1
                             THEN ZeroTail(st.right, st.off, st.numSamples)
                             ELSE dest1,
                   outcome |-> IF st.fault THEN "fault"
                               ELSE IF st.stuck THEN "stuck" ELSE "true" ]

----------------------------------------------------------------------------
(* Reading samples from opened files.                                      *)

\* the largest sample count and start index a call asks for
MaxCount == 3

\* the frames the data chunk of a file declares, and the length of the
\* caller's arrays
FileFrames == MaxCount - 1
DestLen == MaxCount + 1

\* the k-th byte of sample data (never 0 and never 128)
SampleByte(k) == (k * 67 + 129) % 256

\* a WAVE file of a fmt chunk and a data chunk that declares FileFrames
\* frames and holds the first present bytes of them (ReadFiles: all of them,
\* or all but the last byte, the last sample or the last two samples)
ReadFile(format, bits, numChans, present) ==
    LET bytesPerFrame == (numChans * bits) \div 8
        fmt == ChunkBytes(FMT, 16, FmtBody(format, numChans, 4, 4 * bytesPerFrame, bits))
        data == ChunkBytes(DATA, FileFrames * bytesPerFrame,
                           [ k \in 1..present |-> SampleByte(k - 1) ])
    IN  RIFF \o LE32(4 + Len(fmt) + Len(data)) \o WAVE \o fmt \o data

\* frames of 6000 bytes, more than the temporary buffer holds: one byte a
\* second at 6000 bytes a second; the data chunk declares FileFrames frames
\* and holds four bytes
WideFrameFile ==
    RIFF \o LE32(48) \o WAVE \o ChunkBytes(FMT, 16, FmtBody(1, 1, 1, 6000, 8))
         \o ChunkBytes(DATA, FileFrames * 6000, << 1, 2, 3, 4 >>)

\* a PCM fmt chunk, the data chunk, and a second fmt chunk with tag 2
RetaggedFile ==
    RIFF \o LE32(4 + 24 + 8 + FileFrames + (FileFrames % 2) + 24) \o WAVE
         \o ChunkBytes(FMT, 16, FmtBody(1, 1, 4, 4, 8))
         \o ChunkBytes(DATA, FileFrames, [ k \in 1..(FileFrames + (FileFrames % 2)) |-> SampleByte(k - 1) ])
         \o ChunkBytes(FMT, 16, FmtBody(2, 1, 4, 4, 8))

ReadFiles ==
    { ReadFile(1, bits, numChans, FileFrames * ((numChans * bits) \div 8) - short) :
        bits \in { 8, 16, 24, 32 }, numChans \in { 1, 2 }, short \in { 0, 1 } }
    \cup { ReadFile(1, bits, numChans, FileFrames * ((numChans * bits) \div 8) - missing * (bits \div 8)) :
              bits \in { 8, 16, 24, 32 }, numChans \in { 1, 2 }, missing \in { 1, 2 } }
    \cup { ReadFile(3, 32, 1, FileFrames * 4), ReadFile(2, 8, 1, FileFrames) }
    \cup { WideFrameFile, RetaggedFile }

\* an array of DestLen ints holding what the caller left in it
FreshChannel == [ null |-> FALSE, mem |-> [ k \in 1..DestLen |-> 77 ] ]

ReadInit ==
    /\ ListIdle
    /\ CursorsIdle
    /\ WriterIdle
    /\ inp \in { [ bytes |-> b, pos |-> 0, deleted |-> FALSE ] : b \in ReadFiles }
    /\ reader = NewReader
    /\ walk = NewWalk
    /\ rlog = NoReadLog
    /\ dest = [ left |-> NullChannel, right |-> NullChannel ]

\* a call of readSamples on an open reader, with arrays that hold the
\* requested range.  A call reads nothing an earlier call wrote except the
\* stream position, which it sets itself before it reads, so each behaviour
\* makes one call.
ReadSamplesCall(dest0, dest1, numDestChannels, startOffsetInDestBuffer, startSampleInFile, numSamples) ==
    /\ walk.pc = "returned"
    /\ reader.state = "open"
    /\ ~rlog.read.called
    /\ LET res == ReadSamples(reader, inp, dest0, dest1, numDestChannels,
                              startOffsetInDestBuffer, startSampleInFile, numSamples)
       IN  /\ inp' = res.inp
           /\ dest' = [ left |-> res.dest0, right |-> res.dest1 ]
           /\ rlog' = [ rlog EXCEPT !.read =
                          [ called |-> TRUE, outcome |-> res.outcome,
                            numDestChannels |-> numDestChannels,
                            startOffsetInDestBuffer |-> startOffsetInDestBuffer,
                            startSampleInFile |-> startSampleInFile,
                            numSamples |-> numSamples,
                            posBefore |-> inp.pos ] ]
    /\ UNCHANGED << reader, walk >>
    /\ UNCHANGED writerVars
    /\ UNCHANGED listVars
    /\ UNCHANGED cursorVars

ReadSamplesNext ==
    \E numDestChannels \in { 1, 2 }, startOffsetInDestBuffer \in { 0, 1 },
       startSampleInFile \in 0..MaxCount, numSamples \in 0..MaxCount :
       \E dest0 \in { NullChannel, FreshChannel },
          dest1 \in IF numDestChannels > 1 THEN { NullChannel, FreshChannel }
                    ELSE { NullChannel } :
          /\ startOffsetInDestBuffer + numSamples <= DestLen
          /\ ReadSamplesCall(dest0, dest1, numDestChannels, startOffsetInDestBuffer,
                             startSampleInFile, numSamples)

ReadNext ==
    \/ ReaderOpen
    \/ WalkNext
    \/ CreateReaderForNext
    \/ ReadSamplesNext

SpecRead == ReadInit /\ [][ReadNext]_vars

\* the requested positions of a call: 0-based offsets into the request
Requested == 0..(rlog.read.numSamples - 1)

\* the int the call left at requested position k of a channel
DestAt(chan, k) == chan.mem[rlog.read.startOffsetInDestBuffer + k + 1]

\* C10: after readSamples returns, every requested position whose source
\* sample index is at or beyond the sample count holds 0 in every non-null
\* destination buffer.
C10_BeyondLengthIsZeroFilled ==
    (rlog.read.called /\ rlog.read.outcome = "true") =>
        \A k \in Requested :
            (rlog.read.startSampleInFile + k >= WInt(reader.lengthInSamples)) =>
                /\ ~dest.left.null => DestAt(dest.left, k) = 0
                /\ (rlog.read.numDestChannels > 1 /\ ~dest.right.null)
                      => DestAt(dest.right, k) = 0

\* a call that starts at the sample count returned with the caller's array
\* as it was
C10_StartAtEndLeavesGarbage ==
    /\ rlog.read.called /\ rlog.read.outcome = "true"
    /\ rlog.read.numSamples > 0
    /\ rlog.read.startSampleInFile = WInt(reader.lengthInSamples)
    /\ reader.lengthInSamples = W(FileFrames)
    /\ dest.left = FreshChannel

\* the samples a call converts: the request clamped to the sample count
Converted ==
    0..(Min(rlog.read.numSamples,
            WInt(reader.lengthInSamples) - rlog.read.startSampleInFile) - 1)

\* the value of source channel ch (0 or 1) at frame f of the data region,
\* from the bytes of the stream; bytes past its end read as 0
SourceSample(ch, f) ==
    LET size == reader.bitsPerSample \div 8
        at == reader.dataChunkStart + f * reader.bytesPerFrame + ch * size
        got == Slice(inp.bytes, at, size)
    IN  DecodeSample(reader.bitsPerSample, got \o Zeros(size - Len(got)))

\* every non-null destination of a call that returned holds, at the
\* positions converted, the samples of its own source channel
OwnChannelSamples ==
    (rlog.read.called /\ rlog.read.outcome = "true") =>
        \A k \in Converted :
            /\ ~dest.left.null =>
                  DestAt(dest.left, k) = SourceSample(0, rlog.read.startSampleInFile + k)
            /\ (rlog.read.numDestChannels > 1 /\ ~dest.right.null /\ reader.numChannels > 1)
                  => DestAt(dest.right, k) = SourceSample(1, rlog.read.startSampleInFile + k)

\* C11: for every combination of null and non-null destination pointers and
\* a mono or stereo source, readSamples stores no sample through a null
\* pointer, and each non-null destination receives the samples of its own
\* source channel.
C11_NullChannelsAreSkipped ==
    /\ rlog.read.called => rlog.read.outcome # "fault"
    /\ OwnChannelSamples

\* the part of C11 the code keeps: a call that returns has given each
\* non-null destination its own channel
C11_ReturnedCallsGiveOwnChannel == OwnChannelSamples

\* a mono source was read with a null first pointer: the 8-bit loop stored
\* through it
C11_MonoStoredThroughNull ==
    /\ rlog.read.called /\ rlog.read.outcome = "fault"
    /\ reader.numChannels = 1 /\ reader.bitsPerSample = 8
    /\ dest.left.null

\* no byte of the sample of source channel ch at frame f is in the stream
NotDelivered(ch, f) ==
    reader.dataChunkStart + f * reader.bytesPerFrame
        + ch * (reader.bitsPerSample \div 8) >= InSize(inp)

\* a call whose first pointer is not null returned true, and every sample it
\* converted of which the stream held no byte is 0 in its destination
TruncatedSamplesAreZero ==
    (rlog.read.called /\ ~dest.left.null) =>
        /\ rlog.read.outcome = "true"
        /\ \A k \in Converted :
              /\ NotDelivered(0, rlog.read.startSampleInFile + k)
                    => DestAt(dest.left, k) = 0
              /\ ( /\ rlog.read.numDestChannels > 1 /\ ~dest.right.null
                   /\ reader.numChannels > 1
                   /\ NotDelivered(1, rlog.read.startSampleInFile + k) )
                    => DestAt(dest.right, k) = 0

\* C12: when the stream holds fewer bytes than the data chunk declares,
\* readSamples returns true and every sample whose bytes were not delivered
\* is 0 in the destination, for the depths 8, 16, 24 and 32.
C12_TruncationReadsAsZero == TruncatedSamplesAreZero

\* the part of C12 the code keeps: the depths 16, 24 and 32
C12_TruncationReadsAsZeroAbove8Bit ==
    reader.bitsPerSample \in { 16, 24, 32 } => TruncatedSamplesAreZero

\* an 8-bit sample the stream did not hold was converted to (0 - 128) << 24
C12_Missing8BitSampleIsMinimum ==
    /\ rlog.read.called /\ rlog.read.outcome = "true"
    /\ reader.bitsPerSample = 8 /\ ~dest.left.null
    /\ \E k \in Converted :
          /\ NotDelivered(0, rlog.read.startSampleInFile + k)
          /\ DestAt(dest.left, k) = (0 - 128) * 16777216

----------------------------------------------------------------------------
(* The sample conversion of write(), and files written and read back.      *)

MaxBlocks == 2

\* a sample with its low 8 bits kept only, the mistaken conversion
EncodeSample_LowByte(bits, x) == << x % 256 >> \o Zeros((bits \div 8) - 1)

\* one sample as write() stores it in tempBlock:
\*   8 bit:  (unsigned char) (128 + (x >> 24))
\*  16 bit:  (unsigned short) (x >> 16), little-endian
\*  24 bit:  littleEndian24BitToChars (x >> 8)
\*  32 bit:  (unsigned int) x, little-endian
EncodeSample(bits, x) ==
    IF bits = 8 THEN << (128 + (x \div 16777216)) % 256 >>
    ELSE IF bits = 16 THEN LE16(x \div TwoTo16)
    ELSE IF bits = 24 THEN Take(LE32(x \div 256), 3)
    ELSE LE32(x)

\* tempBlock after the conversion loops of write(): the samples of data[0],
\* interleaved with those of data[1] when there are two channels; a null
\* data[1] is replaced by data[0]
RECURSIVE EncodeBlock(_, _, _)
EncodeBlock(w, left, right) ==
    IF Len(left) = 0 THEN << >>
    ELSE LET r == IF right.null THEN left ELSE right.mem
         IN  EncodeSample(w.bitsPerSample, left[1])
               \o (IF w.numChannels > 1 THEN EncodeSample(w.bitsPerSample, r[1]) ELSE << >>)
               \o EncodeBlock(w, Tail(left),
                              IF right.null THEN right
                              ELSE [ right EXCEPT !.mem = Tail(r) ])

\* WavAudioFormatWriter::write on a block whose samples are given: left is
\* data[0], right is data[1].  The converted bytes go to the stream as
\* explicit bytes; when the stream refuses the block it takes the first
\* partial bytes of it.
WriterWriteBlock(left, right, streamOk, partial) ==
    /\ writer.state = "live"
    /\ wlog.calls < MaxBlocks
    /\ IF WriteRejected(writer)
       THEN /\ wlog' = [ wlog EXCEPT !.calls = @ + 1, !.lastResult = "false" ]
            /\ UNCHANGED << writer, out >>
       ELSE LET numSamples == W(Len(left))
                bytes == BlockBytes(writer, numSamples)
                tempBlock == EncodeBlock(writer, left, right)
            IN
            IF ExceedsCeiling(writer, bytes) \/ ~streamOk
            THEN LET taken == IF ExceedsCeiling(writer, bytes) THEN 0
                              ELSE Min(partial, Max(bytes - 1, 0))
                     o1 == OutWrite(out, Take(tempBlock, taken))
                 IN  /\ out' = WriteHeaderOut(writer, o1)
                     /\ writer' = [ writer EXCEPT !.writeFailed = TRUE,
                                       !.usesFloatingPointData = (writer.bitsPerSample = 32) ]
                     /\ wlog' = [ wlog EXCEPT !.calls = @ + 1, !.lastResult = "false",
                                              !.failedAt = wlog.calls + 1,
                                              !.headerWrites = @ + 1 ]
            ELSE /\ out' = OutWrite(out, Take(tempBlock, bytes))
                 /\ writer' = [ writer EXCEPT
                                  !.bytesWritten = WU32(WAdd(@, W(bytes))),
                                  !.lengthInSamples = WU32(WAdd(@, numSamples)) ]
                 /\ wlog' = [ wlog EXCEPT !.calls = @ + 1, !.lastResult = "true",
                                          !.samplesOk = WAdd(@, numSamples),
                                          !.bytesTaken = WAdd(@, W(bytes)),
                                          !.left = @ \o left,
                                          !.right = @ \o (IF right.null THEN left
                                                          ELSE right.mem) ]
    /\ UNCHANGED readerVars
    /\ UNCHANGED listVars
    /\ UNCHANGED cursorVars

\* 32-bit samples: the extremes, all bits set, and two with every byte
\* different
MinSample == (0 - 2147483647) - 1
BlockChoices ==
    { << << 305419896 >>, << 0 - 1 >> >>,
      << << MinSample, 2147483647 >>, << 0 - 19088744, 305419896 >> >> }

\* a file is written from nothing; no input stream is open yet
RoundTripInit ==
    /\ ListIdle
    /\ CursorsIdle
    /\ WriterIdle
    /\ inp = [ bytes |-> << >>, pos |-> 0, deleted |-> FALSE ]
    /\ reader = NewReader
    /\ walk = [ NewWalk EXCEPT !.pc = "idle" ]
    /\ rlog = NoReadLog
    /\ dest = [ left |-> NullChannel, right |-> NullChannel ]

RoundTripCreate ==
    \E numChannels \in ChannelChoices, bits \in PossibleBitDepths :
       CreateWriterFor(44100, numChannels, bits, << >>)

RoundTripWrite ==
    \E block \in BlockChoices, rightGiven \in BOOLEAN, streamOk \in BOOLEAN, partial \in { 0, 1 } :
       /\ (rightGiven <=> writer.numChannels > 1)
       /\ (streamOk => partial = 0)
       /\ WriterWriteBlock(block[1],
                           IF rightGiven THEN [ null |-> FALSE, mem |-> block[2] ]
                           ELSE NullChannel,
                           streamOk, partial)

\* an input stream is opened over the bytes of the finished file
RoundTripReopen ==
    /\ writer.state = "destroyed"
    /\ walk.pc = "idle"
    /\ inp' = [ bytes |-> out.bytes, pos |-> 0, deleted |-> FALSE ]
    /\ walk' = NewWalk
    /\ UNCHANGED << reader, rlog, dest >>
    /\ UNCHANGED writerVars
    /\ UNCHANGED listVars
    /\ UNCHANGED cursorVars

RoundTripNext ==
    \/ RoundTripCreate
    \/ RoundTripWrite
    \/ WriterDestroy
    \/ RoundTripReopen
    \/ ReaderOpen
    \/ WalkNext
    \/ CreateReaderForNext
    \/ ReadSamplesNext

SpecRoundTrip == RoundTripInit /\ [][RoundTripNext]_vars

\* x with its low (32 - d) bits cleared
LowBitsCleared(x, d) == x - (x % (IF d = 32 THEN 1 ELSE IF d = 24 THEN 256
                                  ELSE IF d = 16 THEN TwoTo16 ELSE 16777216))

\* C13: for the depths 8, 16, 24 and 32 and for mono and stereo, the samples
\* a fresh reader returns from the bytes of a written file are, at every
\* position and channel and in order, the samples written with their low
\* (32 - depth) bits cleared.
C13_SampleRoundTrip ==
    (writer.state = "destroyed" /\ rlog.read.called /\ rlog.read.outcome = "true") =>
        /\ reader.lengthInSamples = W(Len(wlog.left))
        /\ reader.bitsPerSample = writer.bitsPerSample
        /\ reader.numChannels = writer.numChannels
        /\ \A k \in Converted :
              /\ ~dest.left.null =>
                    DestAt(dest.left, k)
                      = LowBitsCleared(wlog.left[rlog.read.startSampleInFile + k + 1],
                                       writer.bitsPerSample)
              /\ (rlog.read.numDestChannels > 1 /\ ~dest.right.null /\ writer.numChannels > 1)
                    => DestAt(dest.right, k)
                         = LowBitsCleared(wlog.right[rlog.read.startSampleInFile + k + 1],
                                          writer.bitsPerSample)

\* both blocks were written in stereo at 16 bits and the second frame, whose
\* low bits are not zero, was read back into both channels
C13_Witness ==
    /\ writer.state = "destroyed" /\ writer.bitsPerSample = 16 /\ writer.numChannels = 2
    /\ Len(wlog.left) = 3
    /\ rlog.read.called /\ rlog.read.outcome = "true"
    /\ rlog.read.numDestChannels = 2 /\ ~dest.left.null /\ ~dest.right.null
    /\ rlog.read.startSampleInFile = 0 /\ rlog.read.numSamples = 3
    /\ DestAt(dest.left, 0) = 305397760
    /\ DestAt(dest.right, 0) = 0 - TwoTo16

----------------------------------------------------------------------------
(* BWAVChunk::createFrom followed by BWAVChunk::copyTo on its bytes.  The   *)
(* block is held where the writer holds it (bwavChunk), the decoded map    *)
(* where the reader holds it (metadataValues).                             *)

\* a string of n characters
Letters(c, n) == [ i \in 1..n |-> c ]

\* maps that give each of the seven keys a value: empty, one character, or
\* as long as its field; time references in canonical decimal
BextMaps ==
    { << << bwavDescription, d >>, << bwavOriginator, o >>, << bwavOriginatorRef, r >>,
         << bwavOriginationDate, dt >>, << bwavOriginationTime, tm >>,
         << bwavTimeReference, t >>, << bwavCodingHistory, h >> >> :
        d \in { << >>, << 68 >>, Letters(100, 256) },
        o \in { << >>, Letters(111, 32) },
        r \in { << >>, << 82 >>, Letters(114, 32) },
        dt \in { << >>, << 50, 48, 48, 56, 45, 48, 49, 45, 51, 49 >> },
        tm \in { << >>, << 50, 51, 58, 53, 57, 58, 53, 57 >> },
        t \in { << 48 >>, << 55 >>, << 50, 49, 52, 55, 52, 56, 51, 54, 52, 55 >> },
        h \in { << >>, << 72 >>, << 65, 61, 80, 67, 77 >> } }

BextInit ==
    /\ ListIdle
    /\ CursorsIdle
    /\ writer = NoWriter
    /\ out = [ bytes |-> << >>, pos |-> W(0), dataBytes |-> W(0),
               firstData |-> << -1, 0 >>, torn |-> FALSE ]
    /\ \E values \in BextMaps : wlog = [ NoWriteLog EXCEPT !.metadataValues = values ]
    /\ inp = [ bytes |-> << >>, pos |-> 0, deleted |-> FALSE ]
    /\ reader = NewReader
    /\ walk = [ NewWalk EXCEPT !.pc = "idle" ]
    /\ rlog = NoReadLog
    /\ dest = << >>

\* bwavChunk = BWAVChunk::createFrom (metadataValues)
BextCreateFrom ==
    /\ wlog.created = "not yet"
    /\ writer' = [ writer EXCEPT !.bwavChunk = BWAVChunk_createFrom(wlog.metadataValues) ]
    /\ wlog' = [ wlog EXCEPT !.created = "chunk" ]
    /\ UNCHANGED << out, readerVars >>
    /\ UNCHANGED listVars
    /\ UNCHANGED cursorVars

\* ((const BWAVChunk*) bwavChunk.getData())->copyTo (metadataValues).  The
\* data pointer of an empty block is null: the call then faults, or decodes
\* whatever memory it reads (zeros here).
BextCopyTo ==
    /\ wlog.created = "chunk"
    /\ walk.pc = "idle"
    /\ \E outcome \in IF writer.bwavChunk = << >> THEN { "fault", "stray" } ELSE { "copied" } :
          /\ walk' = [ walk EXCEPT !.pc = outcome ]
          /\ reader' = [ reader EXCEPT !.metadataValues =
                            IF outcome = "copied" THEN BWAVChunk_copyTo(@, writer.bwavChunk)
                            ELSE IF outcome = "stray"
                                 THEN BWAVChunk_copyTo(@, Zeros(SizeofBWAVChunk))
                            ELSE @ ]
    /\ UNCHANGED << inp, rlog, dest, writerVars >>
    /\ UNCHANGED listVars
    /\ UNCHANGED cursorVars

BextNext == BextCreateFrom \/ BextCopyTo

SpecBext == BextInit /\ [][BextNext]_vars

BextKeys ==
    { bwavDescription, bwavOriginator, bwavOriginatorRef, bwavOriginationDate,
      bwavOriginationTime, bwavTimeReference, bwavCodingHistory }

\* the decoded map gives every broadcast key the value the original gave it
DecodedEqualsOriginal ==
    /\ walk.pc # "fault"
    /\ \A key \in BextKeys :
          Lookup(reader.metadataValues, key) = Lookup(wlog.metadataValues, key)

\* C14: for every map over the seven broadcast keys whose values are
\* printable ASCII within the field lengths, copyTo applied to the bytes
\* createFrom produced yields a map equal to the original.
C14_BextRoundTrip ==
    walk.pc # "idle" => DecodedEqualsOriginal

\* the part of C14 the code keeps: the maps for which createFrom returns a
\* block
C14_RoundTripOfNonEmptyBlocks ==
    (walk.pc # "idle" /\ writer.bwavChunk # << >>) => DecodedEqualsOriginal

\* a map whose only non-empty field is the originator reference was encoded
\* to zero bytes, and what was decoded from them lacks the reference
C14_OriginatorRefLost ==
    /\ walk.pc # "idle"
    /\ Lookup(wlog.metadataValues, bwavOriginatorRef) = << 82 >>
    /\ \A key \in BextKeys \ { bwavOriginatorRef, bwavTimeReference } :
          Lookup(wlog.metadataValues, key) = << >>
    /\ Lookup(wlog.metadataValues, bwavTimeReference) = << 48 >>
    /\ writer.bwavChunk = << >>
    /\ Lookup(reader.metadataValues, bwavOriginatorRef) = << >>

----------------------------------------------------------------------------
(* The writer given metadata whose fields are all empty.                   *)

\* every broadcast field of the map is empty and its time reference is 0
AllFieldsEmpty(values) ==
    /\ \A key \in BextKeys \ { bwavTimeReference } : Lookup(values, key) = << >>
    /\ GetLargeIntValue(Lookup(values, bwavTimeReference)) = 0

\* C15: createFrom returns a zero-byte block when every broadcast field of
\* the map is empty and the time reference is 0; a writer constructed with
\* such metadata emits no bext chunk (the data chunk follows the format
\* chunk) and its RIFF size field is the data length plus 36.
C15_BlankMetadataGivesNoBext ==
    (wlog.created = "writer" /\ AllFieldsEmpty(wlog.metadataValues)) =>
        /\ BWAVChunk_createFrom(wlog.metadataValues) = << >>
        /\ writer.bwavChunk = << >>
        /\ Len(out.bytes) = HeaderAnchor + 44
        /\ Slice(out.bytes, HeaderAnchor + 36, 4) = DATA
        /\ RiffSizeField = WU32(WAdd(DataLenField, W(36)))

\* a writer given a map of seven blank entries wrote a sample and was
\* destroyed
C15_Witness ==
    /\ writer.state = "destroyed"
    /\ wlog.metadataSize = 7
    /\ AllFieldsEmpty(wlog.metadataValues)
    /\ wlog.samplesOk = W(1)
    /\ DataLenField # W(0)

----------------------------------------------------------------------------
(* smpl chunks whose declared length and loop count disagree.              *)

MaxLoops == 3

\* the body of a smpl chunk that declares n loops (a wide number) and holds
\* MaxLoops + 2 loop records; field k of record i holds 100 * (i + 1) + k
SmplLoopBytes(i) ==
    Concat([ k \in 1..6 |-> LE32(100 * (i + 1) + k) ])
SmplBody(n) ==
    Concat([ k \in 1..7 |-> LE32(k) ]) \o WLE32(n) \o LE32(9)
        \o Concat([ j \in 1..(MaxLoops + 2) |-> SmplLoopBytes(j - 1) ])

\* declared lengths: too short for the fixed fields, and one byte less than,
\* exactly and one byte more than the fixed fields and k loop records
SmplLengths ==
    { 0, 4 } \cup { 36 + 24 * k + d : k \in 0..MaxLoops, d \in { -1, 0, 1 } }
SmplLoopCounts == { W(k) : k \in 0..(MaxLoops + 1) } \cup { << 65535, 65535 >> }

\* a format chunk, then a smpl chunk declaring length bytes of which the
\* stream holds the first present
SmplFile(length, n, present) ==
    LET chunks == ChunkBytes(FMT, 16, FmtBody(1, 1, 4, 4, 8))
                    \o ChunkBytes(SMPL, length, Take(SmplBody(n), present))
    IN  RIFF \o LE32(4 + Len(chunks)) \o WAVE \o chunks
SmplFiles ==
    { SmplFile(length, n, length - cut) :
        length \in SmplLengths, n \in SmplLoopCounts, cut \in { 0, 30 } }

SmplInit ==
    /\ ListIdle
    /\ CursorsIdle
    /\ WriterIdle
    /\ inp \in { [ bytes |-> b, pos |-> 0, deleted |-> FALSE ] : b \in SmplFiles }
    /\ reader = NewReader
    /\ walk = NewWalk
    /\ rlog = NoReadLog
    /\ dest = << >>

SpecSmpl == SmplInit /\ [][ReaderNext]_vars

\* the smpl chunk of the stream: its declared length, and its bytes as the
\* decoder's buffer holds them (those not in the stream are 0)
SmplDeclaredLength == IntFromLE32(Slice(inp.bytes, 40, 4))
SmplBuffer ==
    LET got == Slice(inp.bytes, 44, SmplDeclaredLength)
    IN  got \o Zeros(36 + 24 * (MaxLoops + 2) - Len(got))
SmplDeclaredLoops == WFromLE32(Slice(SmplBuffer, 28, 4))

\* min (n, floor ((L - 36) / 24)), none when L < 60
LoopsExpected ==
    IF SmplDeclaredLength < 60 THEN 0
    ELSE LET fit == (SmplDeclaredLength - 36) \div 24
         IN  IF WLess(SmplDeclaredLoops, W(fit)) THEN WInt(SmplDeclaredLoops) ELSE fit

\* the six keys of loop i are all set, each to the decimal of its field
LoopDecoded(i) ==
    \A k \in 1..6 :
        Lookup(reader.metadataValues, << LoopFieldNames[k], i >>)
            = WDecimal(WFromLE32(Slice(SmplBuffer, 36 + 24 * i + 4 * (k - 1), 4)))
\* none of the six keys of loop i is set
LoopAbsent(i) ==
    \A k \in 1..6 : \A j \in 1..Len(reader.metadataValues) :
        reader.metadataValues[j][1] # << LoopFieldNames[k], i >>

\* C16: decoding a smpl chunk of declared length L and declared loop count n
\* sets the keys of loop i only if 36 + 24 * (i + 1) <= L, and decodes
\* exactly min (n, floor ((L - 36) / 24)) loops, none when L < 60; so no loop
\* field at an offset at or beyond L is read.
C16_LoopsStopAtDeclaredLength ==
    WalkStopped =>
        /\ Lookup(reader.metadataValues, << "NumSampleLoops" >>) = WDecimal(SmplDeclaredLoops)
        /\ \A i \in 0..(MaxLoops + 1) :
              /\ i < LoopsExpected => LoopDecoded(i)
              /\ i >= LoopsExpected => LoopAbsent(i)
              /\ ~LoopAbsent(i) => 36 + 24 * (i + 1) <= SmplDeclaredLength

\* a chunk of 83 bytes declaring three loops was decoded: one loop fits
C16_Witness ==
    /\ WalkStopped
    /\ SmplDeclaredLength = 83 /\ SmplDeclaredLoops = W(3)
    /\ Lookup(reader.metadataValues, << LoopFieldNames[4], 0 >>) = << 49, 48, 52 >>
    /\ LoopAbsent(1)

----------------------------------------------------------------------------
(* WavAudioFormat::replaceMetadataInFile.  The file is the stream out; a   *)
(* call opens an input stream on its bytes, runs the reader's constructor  *)
(* and createReaderFor on it, and then patches the file in place or copies *)
(* it.                                                                     *)

MaxCalls == 2

TakesInPlacePath_Strict(bwavSize, chunkSize) ==
    WLess(W(0), bwavSize) /\ WLess(W(chunkSize), bwavSize)

\* if (bwavSize > 0) ... if (chunk.getSize() <= bwavSize)
TakesInPlacePath(bwavSize, chunkSize) ==
    WLess(W(0), bwavSize) /\ ~WLess(bwavSize, W(chunkSize))

InPlaceOffset_AtEnd(bwavPos, oldSize) == oldSize

\* out->setPosition (bwavPos)
InPlaceOffset(bwavPos, oldSize) == W(bwavPos)

\* the in-place branch: a FileOutputStream on the existing file starts at its
\* end; the chunk is written at the offset and the position put back
PatchInPlace(o, bwavPos, chunk) ==
    LET oldSize == OutSize(o)
        atEnd == OutSetPosition(o, oldSize)
        written == OutWrite(OutSetPosition(atEnd, InPlaceOffset(bwavPos, oldSize)), chunk)
    IN  OutSetPosition(written, oldSize)

\* the bytes write() appends for the samples a read returned; streamOk is
\* whether the sibling's stream took them
EncodeRead(w, res, streamOk) ==
    [ ok |-> res.outcome = "true" /\ streamOk,
      bytes |-> IF res.outcome = "true" /\ streamOk
                THEN EncodeBlock(w, res.dest0.mem, res.dest1)
                ELSE << >> ]

\* the arrays writeFromAudioReader reads n samples into: one for each
\* channel of the reader
CopyBuffer(n, present) ==
    IF present THEN [ null |-> FALSE, mem |-> Zeros(n) ] ELSE NullChannel

\* AudioFormatWriter::writeFromAudioReader (reader, 0, -1): every sample of
\* the reader is read and handed to write(); the bytes write() appends
WriteFromAudioReader(w, r, fileBytes, streamOk) ==
    EncodeRead(w, ReadSamples(r, [ bytes |-> fileBytes, pos |-> 0, deleted |-> FALSE ],
                              CopyBuffer(WInt(r.lengthInSamples), TRUE),
                              CopyBuffer(WInt(r.lengthInSamples), r.numChannels > 1),
                              2, 0, 0, WInt(r.lengthInSamples)),
               streamOk \/ r.lengthInSamples = W(0))

\* the writer createWriterFor makes for the copy, on an empty stream
CopyWriter(r, metadata) ==
    [ NoWriter EXCEPT
        !.state = "live",
        !.sampleRate = r.sampleRate,
        !.numChannels = r.numChannels,
        !.bitsPerSample = r.bitsPerSample,
        !.bwavChunk = IF Len(metadata) > 0 THEN BWAVChunk_createFrom(metadata) ELSE << >>,
        !.headerPosition = W(0) ]

\* a file that does not exist, and one holding bytes
NoFile == [ exists |-> FALSE, bytes |-> << >> ]
FileOf(bytes) == [ exists |-> TRUE, bytes |-> bytes ]

DeleteOnFailure_Never(ok, sibling) == sibling

\* if (! ok) dest.deleteFile()
DeleteOnFailure(ok, sibling) == IF ok THEN sibling ELSE NoFile

\* if (ok) ok = dest.moveFileTo (file): the move replaces the file by its
\* sibling in one step, or fails and leaves both as they were
MoveFileTo(ok, canMove, sibling, fileBytes) ==
    IF ok /\ canMove
    THEN [ ok |-> TRUE, bytes |-> sibling.bytes, sibling |-> NoFile, copied |-> ok ]
    ELSE [ ok |-> FALSE, bytes |-> fileBytes, sibling |-> sibling, copied |-> ok ]

\* the end of the function: the move, then the deletion; step is the step
\* that failed before the move, if one did
EndCopy(moved, step) ==
    [ ok |-> moved.ok, bytes |-> moved.bytes,
      sibling |-> DeleteOnFailure(moved.ok, moved.sibling),
      step |-> IF step # "copy" THEN step
               ELSE IF ~moved.copied THEN "copy"
               ELSE IF ~moved.ok THEN "move" ELSE "none" ]

\* the sibling once the samples were written and the writer deleted: the
\* header its destructor rewrites, then the sample bytes the stream took
FinishCopy(w, r, copied) ==
    FileOf(HeaderBytes([ w EXCEPT !.lengthInSamples =
                                      IF copied.ok THEN r.lengthInSamples ELSE W(0),
                                  !.bytesWritten = W(Len(copied.bytes)) ])
             \o copied.bytes)

\* juce_slowCopyOfWavFileWithNewMetadata: r is the reader createReaderFor
\* returns for the file (it is the one the caller was given: the file has not
\* changed), canCreate whether the sibling file could be opened for writing,
\* streamOk whether its stream took the samples, canMove whether the move
\* succeeded.  The result is whether it returned true, the bytes of the file
\* and the sibling then.
SlowCopy(r, fileBytes, metadata, canCreate, streamOk, canMove) ==
    IF ~canCreate
    THEN EndCopy(MoveFileTo(FALSE, canMove, NoFile, fileBytes), "create")
    ELSE IF r.state # "open"
    THEN EndCopy(MoveFileTo(FALSE, canMove, FileOf(<< >>), fileBytes), "open")
    ELSE IF ~DepthAccepted(r.bitsPerSample)
    THEN EndCopy(MoveFileTo(FALSE, canMove, FileOf(<< >>), fileBytes), "writer")
    ELSE EndCopy(MoveFileTo(
             WriteFromAudioReader(CopyWriter(r, metadata), r, fileBytes, streamOk).ok,
             canMove,
             FinishCopy(CopyWriter(r, metadata), r,
                        WriteFromAudioReader(CopyWriter(r, metadata), r, fileBytes, streamOk)),
             fileBytes), "copy")

\* the files: a format chunk (mono, 8 bit), a bext chunk, two samples
PatchFmt == ChunkBytes(FMT, 16, FmtBody(1, 1, 4, 4, 8))
PatchData == ChunkBytes(DATA, 2, << 10, 200 >>)
OldBext(history) ==
    BWAVChunk_createFrom(<< << bwavDescription, << 79 >> >>,
                            << bwavOriginatorRef, << 82 >> >>,
                            << bwavTimeReference, << 55 >> >>,
                            << bwavCodingHistory, history >> >>)
WaveOf(chunks, declared) == RIFF \o LE32(4 + declared) \o WAVE \o chunks
BextChunkOf(declared, payload) == ChunkBytes(BEXT, declared, payload)
PlainBext == OldBext(<< >>)
LongBext == OldBext(<< 72, 72, 72, 72, 72 >>)
\* a bext chunk as createFrom makes it; none; one of declared length 0; one
\* of which the stream holds the first 100 bytes only; a larger one; frames
\* of five bytes (40 bits a sample, which no writer takes); no RIFF
PatchChunkLists ==
    { << PatchFmt \o BextChunkOf(Len(PlainBext), PlainBext) \o PatchData, 0 >>,
      << PatchFmt \o PatchData, 0 >>,
      << PatchFmt \o BextChunkOf(0, << >>) \o PatchData, 0 >>,
      << PatchFmt \o BextChunkOf(700, Take(PlainBext, 100)), 600 >>,
      << PatchFmt \o BextChunkOf(Len(LongBext), LongBext) \o PatchData, 0 >>,
      << ChunkBytes(FMT, 16, FmtBody(1, 1, 4, 20, 40)) \o PatchData, 0 >> }
PatchFiles ==
    { WaveOf(c[1], Len(c[1]) + c[2]) : c \in PatchChunkLists }
        \cup { << 82, 73, 70, 88 >> \o LE32(4) \o WAVE }

\* newMetadata: nothing; a description; a description and a coding history
\* of five characters
PatchMetaChoices ==
    { << >>,
      << << bwavDescription, << 78 >> >> >>,
      << << bwavDescription, << 78 >> >>, << bwavCodingHistory, << 104, 104, 104, 104, 104 >> >> >> }

PatchInit ==
    /\ ListIdle
    /\ CursorsIdle
    /\ writer = NoWriter
    /\ \E f \in PatchFiles :
          out = [ bytes |-> f, pos |-> W(Len(f)), dataBytes |-> W(0),
                  firstData |-> << -1, 0 >>, torn |-> FALSE ]
    /\ wlog = NoWriteLog
    /\ inp = [ bytes |-> << >>, pos |-> 0, deleted |-> FALSE ]
    /\ reader = NewReader
    /\ walk = [ NewWalk EXCEPT !.pc = "idle" ]
    /\ rlog = NoReadLog
    /\ dest = << >>

\* replaceMetadataInFile is called: wavFile.createInputStream()
ReplaceBegin(newMetadata) ==
    /\ walk.pc = "idle"
    /\ ~wlog.inspected
    /\ Len(wlog.replaced) < MaxCalls
    /\ inp' = [ bytes |-> out.bytes, pos |-> 0, deleted |-> FALSE ]
    /\ walk' = NewWalk
    /\ rlog' = NoReadLog
    /\ wlog' = [ wlog EXCEPT !.replaced =
                    Append(@, [ newMetadata |-> newMetadata, before |-> out.bytes,
                                path |-> "pending", result |-> FALSE,
                                opened |-> FALSE, bextSeen |-> FALSE,
                                bextLength |-> W(0), bwavPos |-> 0,
                                chunkSize |-> 0, after |-> << >>,
                                sibling |-> NoFile, step |-> "none" ]) ]
    /\ UNCHANGED << reader, dest, writer, out >>
    /\ UNCHANGED listVars
    /\ UNCHANGED cursorVars

\* the branch replaceMetadataInFile takes for the reader r it was returned,
\* and what it leaves: chunk is createFrom (newMetadata), copy the outcome of
\* the slow copy
ReplaceOutcome(r, o, chunk, copy, canOpen) ==
    IF r.state = "open" /\ TakesInPlacePath(r.bwavSize, Len(chunk))
    THEN [ path |-> "in place", result |-> canOpen, fault |-> ~canOpen,
           sibling |-> NoFile, step |-> "none",
           out |-> IF canOpen THEN PatchInPlace(o, r.bwavChunkStart, chunk) ELSE o ]
    ELSE [ path |-> "reconstruction", result |-> copy.ok, fault |-> FALSE,
           sibling |-> copy.sibling, step |-> copy.step,
           out |-> [ o EXCEPT !.bytes = copy.bytes, !.pos = W(Len(copy.bytes)) ] ]

ReplaceRecord(call, r, log, chunk, done) ==
    [ call EXCEPT !.path = done.path,
                  !.sibling = done.sibling,
                  !.step = done.step,
                  !.result = done.result,
                  !.opened = (r.state = "open"),
                  !.bextSeen = log.bextSeen,
                  !.bextLength = log.bextLength,
                  !.bwavPos = r.bwavChunkStart,
                  !.chunkSize = Len(chunk),
                  !.after = done.out.bytes ]

ReplaceApply(call, chunk, done) ==
    /\ out' = done.out
    /\ walk' = [ walk EXCEPT !.pc = IF done.fault THEN "fault" ELSE "idle" ]
    /\ reader' = [ reader EXCEPT !.state = "deleted" ]
    /\ wlog' = [ wlog EXCEPT !.replaced[Len(wlog.replaced)] =
                                ReplaceRecord(call, reader, rlog, chunk, done) ]

\* the rest of replaceMetadataInFile, once createReaderFor has returned.
\* canOpen: whether the file (or, for the copy, its sibling) could be opened
\* for writing; the in-place branch uses the stream without testing it.
\* streamOk, canMove: whether the copy's stream took the samples and whether
\* the sibling could be moved over the file.
ReplaceFinish(canOpen, streamOk, canMove) ==
    /\ walk.pc = "returned"
    /\ ~wlog.inspected
    /\ Len(wlog.replaced) > 0
    /\ wlog.replaced[Len(wlog.replaced)].path = "pending"
    /\ ReplaceApply(wlog.replaced[Len(wlog.replaced)],
                    BWAVChunk_createFrom(wlog.replaced[Len(wlog.replaced)].newMetadata),
                    ReplaceOutcome(reader, out,
                        BWAVChunk_createFrom(wlog.replaced[Len(wlog.replaced)].newMetadata),
                        SlowCopy(reader, out.bytes,
                                 wlog.replaced[Len(wlog.replaced)].newMetadata,
                                 canOpen, streamOk, canMove),
                        canOpen))
    /\ UNCHANGED << inp, rlog, dest, writer >>
    /\ UNCHANGED listVars
    /\ UNCHANGED cursorVars

\* a fresh reader is opened on the file to see what it holds
ReplaceInspect ==
    /\ walk.pc = "idle"
    /\ ~wlog.inspected
    /\ Len(wlog.replaced) > 0
    /\ inp' = [ bytes |-> out.bytes, pos |-> 0, deleted |-> FALSE ]
    /\ walk' = NewWalk
    /\ rlog' = NoReadLog
    /\ wlog' = [ wlog EXCEPT !.inspected = TRUE ]
    /\ UNCHANGED << reader, dest, writer, out >>
    /\ UNCHANGED listVars
    /\ UNCHANGED cursorVars

\* what the file system does in one call: everything works, or the file (or
\* the sibling) is not opened for writing, or the sibling's stream refuses
\* the samples, or the move fails; a step that fails ends the call, so a
\* call meets at most one of them
FinishChoices ==
    { << TRUE, TRUE, TRUE >>, << FALSE, TRUE, TRUE >>,
      << TRUE, FALSE, TRUE >>, << TRUE, TRUE, FALSE >> }

PatchNext ==
    \/ \E newMetadata \in PatchMetaChoices : ReplaceBegin(newMetadata)
    \/ ReaderOpen
    \/ WalkNext
    \/ CreateReaderFor(TRUE)
    \/ \E env \in FinishChoices : ReplaceFinish(env[1], env[2], env[3])
    \/ ReplaceInspect

SpecPatch == PatchInit /\ [][PatchNext]_vars

----------------------------------------------------------------------------
(* Properties of replaceMetadataInFile, checked under SpecPatch.           *)

\* the calls that have returned
FinishedCalls ==
    { k \in 1..Len(wlog.replaced) : wlog.replaced[k].path \notin { "pending" } }

\* the stream a call was given opened as a WAVE file, held a bext chunk, and
\* the new payload is no larger than the declared length of that chunk
FitsDeclaredBext(call) ==
    /\ call.opened
    /\ call.bextSeen
    /\ ~WLess(call.bextLength, W(call.chunkSize))

\* C17 as stated: replaceMetadataInFile takes the in-place path exactly when
\* the file opens as a WAVE file, contains a bext chunk, and the newly
\* encoded payload is no larger than that chunk's declared length; in every
\* other case it takes the reconstruction path.
C17_InPlaceExactlyWhenItFits ==
    \A k \in FinishedCalls :
        LET call == wlog.replaced[k]
        IN  /\ (call.path = "in place") <=> FitsDeclaredBext(call)
            /\ (call.path = "reconstruction") <=> ~FitsDeclaredBext(call)

\* C17 as the code has it: the bext chunk must also declare a length that is
\* not 0
C17_InPlaceExactlyWhenItFitsNonEmptyChunk ==
    \A k \in FinishedCalls :
        LET call == wlog.replaced[k]
            fits == FitsDeclaredBext(call) /\ call.bextLength # W(0)
        IN  /\ (call.path = "in place") <=> fits
            /\ (call.path = "reconstruction") <=> ~fits

\* a file whose bext chunk declares length 0 was given metadata that encodes
\* to zero bytes, and was reconstructed
C17_Witness ==
    \E k \in FinishedCalls :
        /\ wlog.replaced[k].opened /\ wlog.replaced[k].bextSeen
        /\ wlog.replaced[k].bextLength = W(0)
        /\ wlog.replaced[k].chunkSize = 0
        /\ wlog.replaced[k].path = "reconstruction"

\* byte k (0-based) of a file, -1 past its end
ByteAt(bytes, k) == IF k < Len(bytes) THEN bytes[k + 1] ELSE -1

\* the call left the length of the file and every byte outside the new
\* payload as they were
OnlyPayloadChanged(call) ==
    /\ Len(call.after) = Len(call.before)
    /\ \A k \in 0..(Max(Len(call.after), Len(call.before)) - 1) :
          (k < call.bwavPos \/ k >= call.bwavPos + call.chunkSize)
              => ByteAt(call.after, k) = ByteAt(call.before, k)

\* C18: on the in-place path the length of the file is unchanged and every
\* byte outside [bext payload offset, offset + new payload size) is
\* unchanged.
C18_InPlaceTouchesPayloadOnly ==
    \A k \in FinishedCalls :
        wlog.replaced[k].path = "in place" => OnlyPayloadChanged(wlog.replaced[k])

\* the part of C18 the code keeps: files that hold as many bytes of the bext
\* payload as the new payload has
C18_HoldsWhenPayloadIsPresent ==
    \A k \in FinishedCalls :
        ( /\ wlog.replaced[k].path = "in place"
          /\ wlog.replaced[k].bwavPos + wlog.replaced[k].chunkSize
                <= Len(wlog.replaced[k].before) )
            => OnlyPayloadChanged(wlog.replaced[k])

\* a file that ends inside its bext chunk was patched in place and is longer
C18_TruncatedFileGrew ==
    \E k \in FinishedCalls :
        /\ wlog.replaced[k].path = "in place" /\ wlog.replaced[k].result
        /\ Len(wlog.replaced[k].after) > Len(wlog.replaced[k].before)

\* the last call has returned true and a fresh reader has been opened on the
\* file
InspectedAfterTrue ==
    /\ wlog.inspected /\ walk.pc = "returned"
    /\ wlog.replaced[Len(wlog.replaced)].result

\* C19: whenever replaceMetadataInFile returns true, a fresh reader opened on
\* the file reports for each of the seven broadcast keys the value
\* newMetadata gives (empty when it gives none), on both paths, also when
\* newMetadata is empty and the file held broadcast metadata.
C19_NewMetadataIsReadBack ==
    InspectedAfterTrue =>
        /\ reader.state = "open"
        /\ \A key \in BextKeys :
              Lookup(reader.metadataValues, key)
                = Lookup(wlog.replaced[Len(wlog.replaced)].newMetadata, key)

\* the part of C19 the code keeps: when newMetadata encodes to a chunk, the
\* six text fields are read back, and the time reference as a decimal
C19_EncodedChunkIsReadBack ==
    (InspectedAfterTrue /\ wlog.replaced[Len(wlog.replaced)].chunkSize > 0) =>
        /\ reader.state = "open"
        /\ \A key \in BextKeys \ { bwavTimeReference } :
              Lookup(reader.metadataValues, key)
                = Lookup(wlog.replaced[Len(wlog.replaced)].newMetadata, key)
        /\ GetLargeIntValue(Lookup(reader.metadataValues, bwavTimeReference))
             = GetLargeIntValue(Lookup(wlog.replaced[Len(wlog.replaced)].newMetadata,
                                       bwavTimeReference))

\* a file with a description was given empty metadata, the call returned
\* true on the in-place path, and a fresh reader still reports the description
C19_OldDescriptionSurvives ==
    /\ InspectedAfterTrue
    /\ Len(wlog.replaced) = 1
    /\ wlog.replaced[1].newMetadata = << >>
    /\ wlog.replaced[1].path = "in place"
    /\ Lookup(reader.metadataValues, bwavDescription) = << 79 >>

\* C20: when replaceMetadataInFile is called twice in a row with the same
\* metadata and the second call takes the in-place path, the file after the
\* second call is byte for byte the file after the first.
C20_SecondPatchChangesNothing ==
    \A k \in FinishedCalls :
        ( /\ k > 1
          /\ wlog.replaced[k].newMetadata = wlog.replaced[k - 1].newMetadata
          /\ wlog.replaced[k].path = "in place" )
            => wlog.replaced[k].after = wlog.replaced[k - 1].after

\* a file without a bext chunk was reconstructed with a description, and the
\* second call with the same metadata patched the new chunk in place
C20_Witness ==
    /\ 2 \in FinishedCalls
    /\ wlog.replaced[2].newMetadata = wlog.replaced[1].newMetadata
    /\ wlog.replaced[1].path = "reconstruction" /\ wlog.replaced[1].result
    /\ ~wlog.replaced[1].bextSeen
    /\ wlog.replaced[2].path = "in place" /\ wlog.replaced[2].result
    /\ wlog.replaced[2].chunkSize > 0
    /\ wlog.replaced[2].after = wlog.replaced[1].after

----------------------------------------------------------------------------
(* The reconstruction path of replaceMetadataInFile, under SpecPatch.      *)

\* the calls that took the reconstruction path and in which a step failed
FailedReconstructions ==
    { k \in FinishedCalls : /\ wlog.replaced[k].path = "reconstruction"
                            /\ wlog.replaced[k].step # "none" }

\* C21: when a step of the reconstruction fails (the sibling's stream is not
\* created, the source does not open as WAVE, no writer is made, the copy of
\* the samples fails, the move fails) the function returns false, the sibling
\* does not exist afterwards and the file holds the bytes it held before the
\* call; and it returns false on this path only when a step failed.
C21_FailedReconstructionLeavesFile ==
    \A k \in FinishedCalls :
        wlog.replaced[k].path = "reconstruction" =>
            /\ wlog.replaced[k].result = (k \notin FailedReconstructions)
            /\ k \in FailedReconstructions =>
                  /\ ~wlog.replaced[k].sibling.exists
                  /\ wlog.replaced[k].after = wlog.replaced[k].before

\* two calls failed, one in the copy of the samples and one in the move
C21_Witness ==
    /\ 2 \in FailedReconstructions
    /\ wlog.replaced[1].step = "copy"
    /\ wlog.replaced[2].step = "move"
    /\ ~wlog.replaced[2].result
    /\ out.bytes = wlog.replaced[1].before

----------------------------------------------------------------------------
(* ListenerList.  A listener pointer is a number: 0 the null pointer, the  *)
(* others listener objects.  One behaviour builds a list with add and      *)
(* remove, then runs one call() or callChecked() whose callbacks add and   *)
(* remove listeners of the same list, or delete its owner.                 *)

\* add and remove calls made in one behaviour
MaxEdits == 5

NullListener == 0
ListenerObjects == { 1, 2 }

\* Array::add: the element is put at the end, whether it is there or not
Array_add(a, x) == Append(a, x)

\* index of the first element equal to x, 0 when there is none
Array_indexOf(a, x) ==
    IF \E i \in 1..Len(a) : a[i] = x
    THEN CHOOSE i \in 1..Len(a) : a[i] = x /\ \A j \in 1..(i - 1) : a[j] # x
    ELSE 0

\* Array::removeValue: the first element equal to x is taken out
Array_removeValue(a, x) ==
    IF Array_indexOf(a, x) = 0 THEN a
    ELSE SubSeq(a, 1, Array_indexOf(a, x) - 1) \o SubSeq(a, Array_indexOf(a, x) + 1, Len(a))

\* if (listenerToAdd != 0) listeners.add (listenerToAdd)
ListenerList_add(a, listenerToAdd) ==
    IF listenerToAdd # NullListener THEN Array_add(a, listenerToAdd) ELSE a

\* listeners.removeValue (listenerToRemove)
ListenerList_remove(a, listenerToRemove) == Array_removeValue(a, listenerToRemove)

\* next() calls shouldBailOut() unless index <= 0 has settled the test
ConsultsChecker(index) == ~(index <= 0)

GoesOn_IgnoringChecker(index, bail) == ~(index <= 0)

\* if (index <= 0 || bailOutChecker.shouldBailOut()) return false: whether
\* next() goes on to read list.size()
GoesOn(index, bail) == ~(index <= 0 \/ bail)

\* next() without the comparison of the index with the size of the list
IteratorNext_Unclamped(index, bail, listSize) ==
    IF ~GoesOn(index, bail) THEN [ result |-> FALSE, index |-> index ]
    ELSE [ result |-> TRUE, index |-> index - 1 ]

\* next() with the index compared but not decremented
IteratorNext_KeepsIndex(index, bail, listSize) ==
    IF ~GoesOn(index, bail) THEN [ result |-> FALSE, index |-> index ]
    ELSE IF index - 1 < listSize THEN [ result |-> TRUE, index |-> index ]
    ELSE [ result |-> listSize - 1 >= 0, index |-> listSize - 1 ]

\* Iterator::next: what it returns and the index it leaves
IteratorNext(index, bail, listSize) ==
    IF ~GoesOn(index, bail) THEN [ result |-> FALSE, index |-> index ]
    ELSE IF index - 1 < listSize THEN [ result |-> TRUE, index |-> index - 1 ]
    ELSE [ result |-> listSize - 1 >= 0, index |-> listSize - 1 ]

\* what a read outside the listener array yields: no listener of the list
StrayListener == 0 - 1

\* Iterator::getListener: list.getListeners().getUnchecked (index), which
\* does not compare the index with the size of the array
GetListener(a, index) ==
    IF 0 <= index /\ index < Len(a) THEN a[index + 1] ELSE StrayListener

Event(op, l) == [ op |-> op, l |-> l ]

\* what one next() and the callback it leads to add to the history: the
\* answer of the checker, the read of the list's size, the listener invoked
NextEvents(index, bail, a) ==
    (IF ConsultsChecker(index) THEN << Event(IF bail THEN "bail" ELSE "pass", 0) >> ELSE << >>)
      \o (IF GoesOn(index, bail) THEN << Event("size", 0) >> ELSE << >>)
      \o (IF IteratorNext(index, bail, Len(a)).result
          THEN << Event("invoke", GetListener(a, IteratorNext(index, bail, Len(a)).index)) >>
          ELSE << >>)

NoIterator ==
    [ pc |-> "idle", index |-> 0, kind |-> "none", bail |-> FALSE, listDeleted |-> FALSE ]
NoListLog == [ events |-> << >>, edits |-> 0, startSize |-> 0, repeated |-> FALSE ]

ListInit ==
    /\ WriterIdle
    /\ ReaderIdle
    /\ CursorsIdle
    /\ listeners = << >>
    /\ iter = NoIterator
    /\ llog = NoListLog

\* the history after an add or remove: those made by callbacks are kept
Edited(op, l) ==
    [ llog EXCEPT !.edits = @ + 1,
                  !.events = IF iter.pc = "callback" THEN Append(@, Event(op, l)) ELSE @,
                  !.repeated = @ \/ (op = "add" /\ Array_indexOf(listeners, l) # 0) ]

\* the list can be edited before the call and by a callback, while it exists
CanEdit ==
    /\ iter.pc \in { "idle", "callback" }
    /\ ~iter.listDeleted
    /\ llog.edits < MaxEdits

\* ListenerList::add
ListAdd(listenerToAdd) ==
    /\ CanEdit
    /\ listeners' = ListenerList_add(listeners, listenerToAdd)
    /\ llog' = Edited("add", listenerToAdd)
    /\ UNCHANGED << iter, writerVars, readerVars, cursorVars >>

\* ListenerList::remove
ListRemove(listenerToRemove) ==
    /\ CanEdit
    /\ listeners' = ListenerList_remove(listeners, listenerToRemove)
    /\ llog' = Edited("remove", listenerToRemove)
    /\ UNCHANGED << iter, writerVars, readerVars, cursorVars >>

\* call() and callChecked(): the Iterator is constructed, index (list_.size()).
\* call() passes a DummyBailOutChecker, which always answers false.  (The
\* overloads of call() that take parameters construct the checker in the
\* Iterator's initialiser, so the Iterator's reference outlives it; its
\* shouldBailOut() reads no member of the object and answers false all the
\* same.)
CallBegin(kind) ==
    /\ iter.pc = "idle"
    /\ iter' = [ NoIterator EXCEPT !.pc = "next", !.index = Len(listeners), !.kind = kind ]
    /\ llog' = [ llog EXCEPT !.startSize = Len(listeners) ]
    /\ UNCHANGED << listeners, writerVars, readerVars, cursorVars >>

\* one turn of the for loop: iter.next(), and if it returns true the
\* callback of iter.getListener() is entered; if not the call returns
IterNext ==
    /\ iter.pc = "next"
    /\ iter' = [ iter EXCEPT
                   !.index = IteratorNext(iter.index, iter.bail, Len(listeners)).index,
                   !.pc = IF IteratorNext(iter.index, iter.bail, Len(listeners)).result
                          THEN "callback" ELSE "done" ]
    /\ llog' = [ llog EXCEPT !.events = @ \o NextEvents(iter.index, iter.bail, listeners) ]
    /\ UNCHANGED << listeners, writerVars, readerVars, cursorVars >>

\* a callback of callChecked does what the checker watches for (its
\* shouldBailOut() answers true from now on), and deletes the list or not
CallbackBail(deletesList) ==
    /\ iter.pc = "callback"
    /\ iter.kind = "callChecked"
    /\ ~iter.bail
    /\ iter' = [ iter EXCEPT !.bail = TRUE, !.listDeleted = deletesList ]
    /\ UNCHANGED << listeners, llog, writerVars, readerVars, cursorVars >>

\* the callback returns
CallbackReturn ==
    /\ iter.pc = "callback"
    /\ iter' = [ iter EXCEPT !.pc = "next" ]
    /\ UNCHANGED << listeners, llog, writerVars, readerVars, cursorVars >>

ListenersNext ==
    \/ \E l \in ListenerObjects \cup { NullListener } : ListAdd(l)
    \/ \E l \in ListenerObjects \cup { NullListener } : ListRemove(l)
    \/ \E kind \in { "call", "callChecked" } : CallBegin(kind)
    \/ IterNext
    \/ \E deletesList \in BOOLEAN : CallbackBail(deletesList)
    \/ CallbackReturn

SpecListeners == ListInit /\ [][ListenersNext]_vars

----------------------------------------------------------------------------
(* Properties of ListenerList, checked under SpecListeners.                *)

Occurrences(a, l) == Cardinality({ i \in 1..Len(a) : a[i] = l })

\* C22: after any sequence of add and remove calls each listener occurs in
\* the list at most once (add of a listener that is in the list changes
\* nothing), and the null pointer is never in it.
C22_AddIsIdempotent ==
    /\ \A l \in ListenerObjects : Occurrences(listeners, l) <= 1
    /\ Occurrences(listeners, NullListener) = 0

\* the part of C22 the code keeps: add of the null pointer changes nothing
C22_NullIsNeverListed == Occurrences(listeners, NullListener) = 0

\* add (1); add (1): the list holds listener 1 twice
C22_ListenerAddedTwice ==
    /\ iter.pc = "idle"
    /\ llog.edits = 2
    /\ listeners = << 1, 1 >>

\* the callback of a listener was entered after a remove of that listener
\* with no add of it in between
InvokedAfterRemove(ev) ==
    \E i \in 1..Len(ev) :
        /\ ev[i].op = "invoke"
        /\ \E j \in 1..(i - 1) :
              /\ ev[j].op = "remove" /\ ev[j].l = ev[i].l
              /\ \A k \in (j + 1)..(i - 1) : ~(ev[k].op = "add" /\ ev[k].l = ev[i].l)

\* C23: during one call, once remove (L) has been executed the callback of L
\* is not invoked again unless L is added again afterwards, whatever adds and
\* removes came before.
C23_RemovedListenerIsNotCalled == ~InvokedAfterRemove(llog.events)

\* C23 holds in every behaviour in which no listener was added while it was
\* in the list
C23_HoldsWithoutRepeatedAdd == ~llog.repeated => ~InvokedAfterRemove(llog.events)

\* a listener that had been added twice was removed by a callback and
\* invoked afterwards
C23_RemovedDuplicateIsCalled ==
    /\ llog.repeated
    /\ InvokedAfterRemove(llog.events)
    /\ iter.pc = "callback"

\* C24: in callChecked the checker is consulted before each callback, and
\* once shouldBailOut() has returned true no callback is invoked and the
\* iteration does not read the list again.
C24_NothingAfterBailOut ==
    \A i \in 1..Len(llog.events) :
        /\ llog.events[i].op = "bail" =>
              \A k \in (i + 1)..Len(llog.events) :
                  llog.events[k].op \notin { "pass", "bail", "size", "invoke" }
        /\ llog.events[i].op = "invoke" =>
              /\ i > 2
              /\ llog.events[i - 1].op = "size"
              /\ llog.events[i - 2].op = "pass"

\* a callback deleted the list while listeners were still to be called; the
\* checker said so and the call returned
C24_Witness ==
    /\ iter.pc = "done" /\ iter.kind = "callChecked"
    /\ iter.listDeleted
    /\ iter.index > 0
    /\ Len(llog.events) > 0
    /\ llog.events[Len(llog.events)].op = "bail"

----------------------------------------------------------------------------
(* The fields the chunk walk leaves, checked under SpecReader.             *)

\* (recorded data length) div (final bytesPerFrame), 0 when that is not
\* positive
SamplesOfFinalFrameSize ==
    IF reader.bytesPerFrame > 0
    THEN WDivInt(reader.dataLength, reader.bytesPerFrame)
    ELSE W(0)

\* C25: after the walk, whatever the order and number of fmt and data
\* chunks, lengthInSamples is the recorded data length divided by the final
\* bytesPerFrame, and 0 when the final bytesPerFrame is 0; so a positive
\* sample count comes with a positive bytesPerFrame, and the samples never
\* take more bytes than the data length.
C25_SampleCountMatchesFinalFrameSize ==
    WalkStopped =>
        /\ reader.lengthInSamples = SamplesOfFinalFrameSize
        /\ WLess(W(0), reader.lengthInSamples) => reader.bytesPerFrame > 0
        /\ reader.bytesPerFrame > 0 =>
              ~WLess(reader.dataLength, WMul(reader.lengthInSamples, reader.bytesPerFrame))

\* a data chunk of 3 bytes came before the format chunk (PCM, one byte a
\* frame): the sample count is the one the data handler computed, not 3
C25_DataBeforeFmt ==
    /\ WalkStopped
    /\ Slice(inp.bytes, 12, 4) = DATA
    /\ Slice(inp.bytes, 24, 4) = FMT
    /\ reader.dataLength = W(3)
    /\ reader.bytesPerFrame = 1
    /\ reader.lengthInSamples # W(3)

\* C26: the walk meets no arithmetic fault, whatever the fmt chunk holds
\* (sample rate 0 and channel count 0 included), and createReaderFor returns
\* no reader for a file whose fmt chunk declares sample rate 0.
C26_HeaderParsingDoesNotFault ==
    /\ walk.pc # "fault"
    /\ (rlog.result # "pending" /\ rlog.fmtSeen /\ reader.sampleRate = 0) =>
          rlog.result = "null"

\* the walk stopped in the fmt handler of a chunk whose sample rate is 0,
\* at the division by it
C26_ZeroSampleRateFaults ==
    /\ walk.pc = "fault"
    /\ rlog.cur.id = FMT
    /\ rlog.cur.afterHeader + 16 <= Len(inp.bytes)
    /\ IntFromLE32(Slice(inp.bytes, rlog.cur.afterHeader + 4, 4)) = 0
    /\ rlog.result = "pending"

----------------------------------------------------------------------------
(* Termination of the chunk walk.  The constructor waits for nothing, so   *)
(* it terminates if its loop makes a bounded number of iterations: the     *)
(* position at which a header is read is the variant.                      *)

\* an iteration after which the loop went on to read another chunk header
\* left the position at least 8 bytes beyond where it read its own
AdvancesPastHeader ==
    (rlog.prev.dispatched /\ rlog.cur.dispatched) =>
        rlog.cur.posAtTest >= rlog.prev.posAtTest + 8

\* the k-th header is read at 12 + 8 * (k - 1) or later and inside the
\* stream, so a stream of n bytes is walked in at most (n - 12) / 8 + 1
\* iterations and one more test of the loop condition
IterationsAreBounded ==
    /\ rlog.cur.dispatched =>
          /\ rlog.cur.posAtTest >= 12 + 8 * (rlog.iterations - 1)
          /\ rlog.cur.posAtTest < Len(inp.bytes)
    /\ 8 * (rlog.iterations - 2) < Len(inp.bytes)

\* C27: the chunk walk terminates on every stream: each iteration ends the
\* walk or leaves the read position at least 8 bytes beyond the position at
\* which it read its chunk header, also when the handler read past the
\* chunk's end and the walker seeks backwards.
C27_WalkAdvancesAndTerminates == AdvancesPastHeader /\ IterationsAreBounded

\* the handler of a fmt chunk that declares no body read 12 bytes past the
\* chunk's end, the walker went back, and the next header was read 8 bytes
\* after the first
C27_Witness ==
    /\ rlog.prev.dispatched /\ rlog.cur.dispatched
    /\ rlog.prev.id = FMT
    /\ WLess(rlog.prev.chunkEnd, W(rlog.prev.posAfterHandler))
    /\ rlog.cur.posAtTest = rlog.prev.posAtTest + 8
    /\ WalkStopped

----------------------------------------------------------------------------
(* Termination of readSamples, checked under SpecRead.                     *)

\* C28: readSamples returns true for every reader createReaderFor returns
\* and every request, whatever bytesPerFrame the header gave (larger than
\* the temporary buffer or 0 included): each pass of its loop lowers the
\* number of samples still to read.
C28_ReadSamplesReturnsTrue ==
    rlog.read.called => rlog.read.outcome \notin { "stuck", "trap" }

\* the part of C28 the code keeps: frames that fit the temporary buffer
C28_ReturnsWhenFrameFitsBuffer ==
    (rlog.read.called /\ reader.bytesPerFrame > 0 /\ reader.bytesPerFrame <= tempBufSize) =>
        rlog.read.outcome \notin { "stuck", "trap" }

\* one sample was asked of a file with frames of 6000 bytes: no pass of the
\* loop reads a sample
C28_WideFrameNeverReturns ==
    /\ rlog.read.called
    /\ rlog.read.numSamples = 1
    /\ reader.bytesPerFrame = 6000
    /\ rlog.read.outcome = "stuck"

----------------------------------------------------------------------------
(* The counters of the writer, checked under SpecWriter.                   *)

C29_CountersFollowAcceptedCalls ==
    writer.state # "none" =>
        /\ writer.bytesWritten = WU32(wlog.bytesTaken)
        /\ writer.lengthInSamples = WU32(wlog.samplesOk)

----------------------------------------------------------------------------
(* Where the writer writes, checked under SpecWriter (a seekable stream).  *)

\* the anchor recorded at construction: the position the stream was given at
AnchorAtConstruction == W(Len(wlog.outBefore))
\* the length of the header the constructor wrote
FirstHeaderLength == Len(wlog.outAfterCtor) - Len(wlog.outBefore)

\* C30: every header write starts at the anchor recorded at construction
\* and has the length of the first one; every accepted sample block is
\* written at anchor + header length + (sample bytes accepted before it); no
\* sample block is accepted after a header rewrite other than the
\* constructor's; the bytes before the anchor are never modified (torn: a
\* header write reached into the sample bytes, or a sample write did not go
\* to the end of the stream).
C30_HeaderAndSamplesApart ==
    [][ /\ wlog'.headerWrites # wlog.headerWrites =>
              /\ writer'.headerPosition = AnchorAtConstruction'
              /\ Len(HeaderBytes(writer')) = FirstHeaderLength'
              /\ out'.pos = WAdd(AnchorAtConstruction', W(FirstHeaderLength'))
              /\ Slice(out'.bytes, Len(wlog'.outBefore), FirstHeaderLength') = HeaderBytes(writer')
        /\ (wlog'.calls # wlog.calls /\ wlog'.lastResult = "true") =>
              /\ out.pos = WAdd(WAdd(AnchorAtConstruction, W(FirstHeaderLength)), wlog.bytesTaken)
              /\ out.pos = OutSize(out)
              /\ wlog.headerWrites = 1
        /\ Take(out'.bytes, Len(wlog'.outBefore)) = Take(out.bytes, Len(wlog'.outBefore))
        /\ ~out'.torn ]_vars

\* a writer made on a stream that held two bytes accepted a block, had one
\* refused, and was destroyed: three header writes
C30_Witness ==
    /\ writer.state = "destroyed"
    /\ wlog.outBefore = << 170, 187 >>
    /\ wlog.headerWrites = 3
    /\ WLess(W(0), wlog.bytesTaken)
    /\ Take(out.bytes, 2) = << 170, 187 >>

----------------------------------------------------------------------------
(* A file written with one of several sample rates, then opened: what the  *)
(* reader's constructor makes of the format chunk that writeHeader wrote.  *)

\* sample rates: the lowest, a usual one, and 2^28, whose product with the
\* 8 bytes of a 32-bit stereo frame is 2^31
FastRate == 16384 * 16384
FormatRates == { 1, 44100, FastRate }

FormatCreate ==
    \E rate \in FormatRates, numChannels \in ChannelChoices, bits \in PossibleBitDepths,
       metadataValues \in { << >>, << << bwavDescription, << 65 >> >> >> } :
          CreateWriterFor(rate, numChannels, bits, metadataValues)

FormatNext ==
    \/ FormatCreate
    \/ RoundTripWrite
    \/ WriterDestroy
    \/ RoundTripReopen
    \/ ReaderOpen
    \/ WalkNext
    \/ CreateReaderForNext

SpecFormat == RoundTripInit /\ [][FormatNext]_vars

\* createReaderFor returned a reader whose format is the writer's
ReaderReportsWritersFormat ==
    /\ rlog.result = "reader"
    /\ reader.sampleRate = writer.sampleRate
    /\ reader.numChannels = writer.numChannels
    /\ reader.bitsPerSample = writer.bitsPerSample
    /\ reader.lengthInSamples = wlog.samplesOk
    /\ reader.usesFloatingPointData = (writer.bitsPerSample = 32)

\* C31: a file produced by a writer of sample rate r > 0, 1 or 2 channels and
\* depth 8, 16, 24 or 32 is opened by createReaderFor as a reader that
\* reports rate r, the channel count, the depth, as many samples as were
\* successfully written, and the floating-point flag exactly at depth 32.
C31_FormatRoundTrip ==
    (writer.state = "destroyed" /\ walk.pc = "returned") => ReaderReportsWritersFormat

\* the same for writers whose bytes-per-second product fits an int
C31_HoldsWhileByteRateFitsInt ==
    (/\ writer.state = "destroyed" /\ walk.pc = "returned"
     /\ WLess(WMul(W(writer.sampleRate), WriterBytesPerFrame(writer)), << 32768, 0 >>))
        => ReaderReportsWritersFormat

\* a 32-bit stereo file of rate 2^28 with samples in it is opened as a reader
\* of -32 bits per sample and no samples
C31_FastStereoFloatMisread ==
    /\ writer.state = "destroyed" /\ walk.pc = "returned"
    /\ writer.sampleRate = FastRate /\ writer.numChannels = 2 /\ writer.bitsPerSample = 32
    /\ wlog.samplesOk = W(3)
    /\ rlog.result = "reader"
    /\ reader.sampleRate = FastRate
    /\ reader.bitsPerSample = 0 - 32
    /\ reader.lengthInSamples = W(0)

----------------------------------------------------------------------------
(* BWAVChunk::createFrom: which maps give a block.                         *)

\* the broadcast keys whose value in the map is a non-empty string, or for
\* the time reference a number other than zero
FilledKeys(values) ==
    { key \in BextKeys \ { bwavTimeReference } : Lookup(values, key) # << >> }
      \cup (IF GetLargeIntValue(Lookup(values, bwavTimeReference)) # 0
            THEN { bwavTimeReference } ELSE { })

\* C32: createFrom returns a non-empty block whenever at least one of the
\* seven broadcast values is non-empty or non-zero.
C32_FilledMapGivesBlock ==
    (wlog.created = "chunk" /\ FilledKeys(wlog.metadataValues) # { })
        => writer.bwavChunk # << >>

\* the same when a value other than the originator reference is filled
C32_BlockUnlessOnlyReference ==
    (wlog.created = "chunk" /\ FilledKeys(wlog.metadataValues) \ { bwavOriginatorRef } # { })
        => Len(writer.bwavChunk) >= SizeofBWAVChunk

\* a map whose originator reference has 32 characters, everything else
\* empty or zero, gave no block
C32_FullReferenceGivesNoBlock ==
    /\ wlog.created = "chunk"
    /\ FilledKeys(wlog.metadataValues) = { bwavOriginatorRef }
    /\ Len(Lookup(wlog.metadataValues, bwavOriginatorRef)) = 32
    /\ writer.bwavChunk = << >>

----------------------------------------------------------------------------
(* The Iterator's index and the callbacks of one call, checked under       *)
(* SpecListeners.                                                          *)

\* the step is a next() that returned true
NextReturnedTrue == iter.pc = "next" /\ iter'.pc = "callback"

\* C33: whenever next() returns true the index is at least 0 and below the
\* size the list has then, so getListener() reads inside the array,
\* whatever the callbacks added or removed since the previous next().
C33_IndexInsideList ==
    [][ NextReturnedTrue =>
          /\ 0 <= iter'.index
          /\ iter'.index < Len(listeners')
          /\ llog'.events[Len(llog'.events)] = Event("invoke", listeners[iter'.index + 1])
          /\ llog'.events[Len(llog'.events)].l # StrayListener ]_vars

\* the list held three listeners when the call began; the first callback
\* removed two of them, and next() came back with the index set to the last
\* entry left
C33_Witness ==
    /\ iter.pc = "callback"
    /\ llog.startSize = 3
    /\ Len(listeners) = 1
    /\ iter.index = 0
    /\ Len(llog.events) = 8
    /\ llog.events[3].op = "invoke"
    /\ llog.events[4].op = "remove" /\ llog.events[5].op = "remove"
    /\ llog.events[8] = Event("invoke", listeners[1])

\* a callback removed every listener and the next next() returned false
\* with the index below 0
C33_EmptiedList ==
    /\ iter.pc = "done"
    /\ listeners = << >>
    /\ iter.index = 0 - 1

\* the events of one kind, in order
EventsOf(ev, ops) == SelectSeq(ev, LAMBDA e : e.op \in ops)

\* the listeners whose callbacks were entered, in order
Invoked(ev) == [ i \in 1..Len(EventsOf(ev, { "invoke" })) |-> EventsOf(ev, { "invoke" })[i].l ]

Reverse(a) == [ i \in 1..Len(a) |-> a[Len(a) - i + 1] ]

\* a next() that goes past its first test leaves a smaller index, not below
\* -1; one that does not ends the call
IndexDecreases ==
    iter.pc = "next" =>
        IF GoesOn(iter.index, iter.bail)
        THEN iter'.index < iter.index /\ iter'.index >= 0 - 1
        ELSE iter'.index = iter.index /\ iter'.pc = "done"

\* at most N callbacks, and at most N calls of next() that go past the test
\* of the index, N being the size of the list when the call began
CallbacksAreBounded ==
    /\ Len(EventsOf(llog.events, { "invoke" })) <= llog.startSize
    /\ Len(EventsOf(llog.events, { "pass", "bail" })) <= llog.startSize
    /\ iter.pc # "idle" => iter.index <= llog.startSize

\* no callback called add or remove, none made the checker answer true
ListLeftAlone == EventsOf(llog.events, { "add", "remove", "bail" }) = << >>

\* a finished call whose callbacks left the list alone entered the callback
\* of every entry once, the last entry first
EachEntryOnceLastFirst ==
    (iter.pc = "done" /\ ListLeftAlone) => Invoked(llog.events) = Reverse(listeners)

\* C34: one call() or callChecked() on a list of N listeners invokes at most
\* N callbacks and ends, whatever the callbacks add or remove, the index
\* decreasing on every next(); when no callback changes the list and none
\* bails out, each entry is invoked exactly once, from the last added to
\* the first.
C34_CallIsBoundedAndOrdered ==
    [][ /\ IndexDecreases
        /\ CallbacksAreBounded'
        /\ EachEntryOnceLastFirst' ]_vars

\* call() on the list 1, 2, 2 has returned: the callbacks of 2, 2 and 1
\* were entered, in that order
C34_Witness ==
    /\ iter.pc = "done" /\ iter.kind = "call"
    /\ listeners = << 1, 2, 2 >>
    /\ llog.startSize = 3
    /\ ListLeftAlone
    /\ Invoked(llog.events) = << 2, 2, 1 >>

\* a call on a list of one listener whose callback added four: the call
\* returned after that one callback
C34_GrownListIsNotRevisited ==
    /\ iter.pc = "done"
    /\ llog.startSize = 1
    /\ Len(listeners) = 5
    /\ Len(Invoked(llog.events)) = 1

----------------------------------------------------------------------------
(* MouseCursor and RefCountedMouseCursor.  A MouseCursor object is a slot  *)
(* that holds cursorHandle; a RefCountedMouseCursor is an entry of         *)
(* instances, named by its index (0 is the null pointer), and an index is  *)
(* not given out again after delete.  Each thread runs one operation at a  *)
(* time, statement by statement; ++refCount and --refCount are a read      *)
(* followed by a write.  A MouseCursor object taking part in an operation  *)
(* is used by the thread that runs it and by no other until it ends.       *)

\* operations begun in one behaviour
MaxOps == 4

Threads == { 1, 2 }
CursorObjects == { 1, 2, 3 }
StandardCursorTypes == { "NormalCursor", "WaitCursor" }
NoThread == 0

NoCursor == [ state |-> "dead", cursorHandle |-> 0, user |-> NoThread, madeAs |-> "none" ]
IdleThread ==
    [ pc |-> "idle", op |-> "none", self |-> 0, other |-> 0, type |-> "none",
      r |-> 0, i |-> 0, count |-> 0 ]
NoCursorLog ==
    [ ops |-> 0, overlapped |-> FALSE, usedDeleted |-> FALSE, deletedTwice |-> FALSE ]

CursorInit ==
    /\ WriterIdle
    /\ ReaderIdle
    /\ ListIdle
    /\ cursors = [ m \in CursorObjects |-> NoCursor ]
    /\ instances = << >>
    /\ standardCursors = << >>
    /\ mouseCursorLock = NoThread
    /\ threads = [ t \in Threads |-> IdleThread ]
    /\ clog = NoCursorLog

\* a lock that lets every thread in
LockIsFree_Always(lock) == TRUE

\* const ScopedLock sl (mouseCursorLock) returns once no thread is inside
LockIsFree(lock) == lock = NoThread

\* RefCountedMouseCursor (const MouseCursor::StandardCursorType t)
RefCountedMouseCursor_standard(t) ==
    [ refCount |-> 1, standardType |-> t, isStandard |-> TRUE, deleted |-> FALSE ]

\* RefCountedMouseCursor (Image& image, hotSpotX, hotSpotY)
RefCountedMouseCursor_image ==
    [ refCount |-> 1, standardType |-> "NormalCursor", isStandard |-> FALSE, deleted |-> FALSE ]

\* a destructor that leaves the object in the array
RemovedFromCache_Never(cache, r) == cache

\* standardCursors.removeValue (this) in ~RefCountedMouseCursor
RemovedFromCache(cache, r) == Array_removeValue(cache, r)

\* bool MouseCursor::operator== (const MouseCursor& other)
MouseCursor_equals(a, b) == a.cursorHandle = b.cursorHandle

\* a thread can begin an operation; the objects it names are used by no thread
CanBegin(t) == threads[t].pc = "idle" /\ clog.ops < MaxOps
Unused(m) == cursors[m].user = NoThread

\* the history after thread t has begun an operation
Begins(t) ==
    [ clog EXCEPT !.ops = @ + 1,
                  !.overlapped = @ \/ \E u \in Threads \ { t } : threads[u].pc # "idle" ]

\* the history after a member of instance r was read or written
Touches(r) == [ clog EXCEPT !.usedDeleted = @ \/ instances[r].deleted ]

\* where an operation goes on after cursorHandle->decRef()
AfterDecRef(op) == IF op = "assign" THEN "rebind" ELSE "unlock"

\* MouseCursor() and MouseCursor (type): findInstance is entered, its lock taken
StandardBegin(t, m, type) ==
    /\ CanBegin(t)
    /\ cursors[m].state = "dead" /\ Unused(m)
    /\ LockIsFree(mouseCursorLock)
    /\ mouseCursorLock' = t
    /\ threads' = [ threads EXCEPT ![t] = [ IdleThread EXCEPT !.pc = "findLoop",
                                              !.op = "standard", !.self = m, !.type = type ] ]
    /\ cursors' = [ cursors EXCEPT ![m] = [ NoCursor EXCEPT !.state = "constructing",
                                              !.user = t, !.madeAs = type ] ]
    /\ clog' = Begins(t)
    /\ UNCHANGED << instances, standardCursors, writerVars, readerVars, listVars >>

\* one turn of  for (int i = 0; i < standardCursors.size(); i++)
FindLoop(t) ==
    /\ threads[t].pc = "findLoop"
    /\ IF threads[t].i < Len(standardCursors)
       THEN /\ threads' = [ threads EXCEPT ![t] =
                  IF instances[standardCursors[threads[t].i + 1]].standardType = threads[t].type
                  THEN [ @ EXCEPT !.r = standardCursors[threads[t].i + 1], !.pc = "incRead" ]
                  ELSE [ @ EXCEPT !.i = @ + 1 ] ]
            /\ clog' = Touches(standardCursors[threads[t].i + 1])
       ELSE /\ threads' = [ threads EXCEPT ![t].pc = "new" ]
            /\ UNCHANGED clog
    /\ UNCHANGED << cursors, instances, standardCursors, mouseCursorLock >>
    /\ UNCHANGED << writerVars, readerVars, listVars >>

\* return new RefCountedMouseCursor (type): the constructor puts the object
\* in standardCursors
FindNew(t) ==
    /\ threads[t].pc = "new"
    /\ instances' = Append(instances, RefCountedMouseCursor_standard(threads[t].type))
    /\ standardCursors' = Array_add(standardCursors, Len(instances) + 1)
    /\ threads' = [ threads EXCEPT ![t].r = Len(instances) + 1, ![t].pc = "unlock" ]
    /\ UNCHANGED << cursors, mouseCursorLock, clog, writerVars, readerVars, listVars >>

\* ++refCount, the read
IncRead(t) ==
    /\ threads[t].pc = "incRead"
    /\ threads' = [ threads EXCEPT ![t].count = instances[threads[t].r].refCount,
                                   ![t].pc = "incWrite" ]
    /\ clog' = Touches(threads[t].r)
    /\ UNCHANGED << cursors, instances, standardCursors, mouseCursorLock >>
    /\ UNCHANGED << writerVars, readerVars, listVars >>

\* ++refCount, the write
IncWrite(t) ==
    /\ threads[t].pc = "incWrite"
    /\ instances' = [ instances EXCEPT ![threads[t].r].refCount = threads[t].count + 1 ]
    /\ threads' = [ threads EXCEPT ![t].pc = "unlock" ]
    /\ clog' = Touches(threads[t].r)
    /\ UNCHANGED << cursors, standardCursors, mouseCursorLock >>
    /\ UNCHANGED << writerVars, readerVars, listVars >>

\* MouseCursor (Image&, int, int): cursorHandle = new RefCountedMouseCursor (...)
ImageBegin(t, m) ==
    /\ CanBegin(t)
    /\ cursors[m].state = "dead" /\ Unused(m)
    /\ instances' = Append(instances, RefCountedMouseCursor_image)
    /\ threads' = [ threads EXCEPT ![t] = [ IdleThread EXCEPT !.pc = "store", !.op = "image",
                                              !.self = m, !.r = Len(instances) + 1 ] ]
    /\ cursors' = [ cursors EXCEPT ![m] = [ NoCursor EXCEPT !.state = "constructing",
                                              !.user = t, !.madeAs = "image" ] ]
    /\ clog' = Begins(t)
    /\ UNCHANGED << standardCursors, mouseCursorLock, writerVars, readerVars, listVars >>

\* the constructor stores what findInstance or new returned in cursorHandle
Store(t) ==
    /\ threads[t].pc = "store"
    /\ cursors' = [ cursors EXCEPT ![threads[t].self] =
                      [ @ EXCEPT !.state = "live", !.cursorHandle = threads[t].r,
                                 !.user = NoThread ] ]
    /\ threads' = [ threads EXCEPT ![t] = IdleThread ]
    /\ UNCHANGED << instances, standardCursors, mouseCursorLock, clog >>
    /\ UNCHANGED << writerVars, readerVars, listVars >>

\* MouseCursor (const MouseCursor& other) : cursorHandle (other.cursorHandle)
CopyBegin(t, m, o) ==
    /\ CanBegin(t)
    /\ cursors[m].state = "dead" /\ Unused(m)
    /\ cursors[o].state = "live" /\ Unused(o)
    /\ cursors' = [ cursors EXCEPT
                      ![m] = [ NoCursor EXCEPT !.state = "constructing", !.user = t,
                                 !.cursorHandle = cursors[o].cursorHandle,
                                 !.madeAs = cursors[o].madeAs ],
                      ![o].user = t ]
    /\ threads' = [ threads EXCEPT ![t] = [ IdleThread EXCEPT !.pc = "copyLock", !.op = "copy",
                                              !.self = m, !.other = o ] ]
    /\ clog' = Begins(t)
    /\ UNCHANGED << instances, standardCursors, mouseCursorLock >>
    /\ UNCHANGED << writerVars, readerVars, listVars >>

\* the ScopedLock of the copy constructor; cursorHandle->incRef() follows
CopyLock(t) ==
    /\ threads[t].pc = "copyLock"
    /\ LockIsFree(mouseCursorLock)
    /\ mouseCursorLock' = t
    /\ threads' = [ threads EXCEPT ![t].r = cursors[threads[t].self].cursorHandle,
                                   ![t].pc = "incRead" ]
    /\ UNCHANGED << cursors, instances, standardCursors, clog >>
    /\ UNCHANGED << writerVars, readerVars, listVars >>

\* ~MouseCursor: the lock is taken; cursorHandle->decRef() follows
DestroyBegin(t, m) ==
    /\ CanBegin(t)
    /\ cursors[m].state = "live" /\ Unused(m)
    /\ LockIsFree(mouseCursorLock)
    /\ mouseCursorLock' = t
    /\ cursors' = [ cursors EXCEPT ![m].user = t ]
    /\ threads' = [ threads EXCEPT ![t] = [ IdleThread EXCEPT !.pc = "decRead", !.op = "destroy",
                                              !.self = m, !.r = cursors[m].cursorHandle ] ]
    /\ clog' = Begins(t)
    /\ UNCHANGED << instances, standardCursors, writerVars, readerVars, listVars >>

\* operator= with this != &other: the lock is taken; cursorHandle->decRef() follows
AssignBegin(t, m, o) ==
    /\ CanBegin(t)
    /\ m # o
    /\ cursors[m].state = "live" /\ Unused(m)
    /\ cursors[o].state = "live" /\ Unused(o)
    /\ LockIsFree(mouseCursorLock)
    /\ mouseCursorLock' = t
    /\ cursors' = [ cursors EXCEPT ![m].user = t, ![o].user = t ]
    /\ threads' = [ threads EXCEPT ![t] = [ IdleThread EXCEPT !.pc = "decRead", !.op = "assign",
                                              !.self = m, !.other = o,
                                              !.r = cursors[m].cursorHandle ] ]
    /\ clog' = Begins(t)
    /\ UNCHANGED << instances, standardCursors, writerVars, readerVars, listVars >>

\* --refCount, the read
DecRead(t) ==
    /\ threads[t].pc = "decRead"
    /\ threads' = [ threads EXCEPT ![t].count = instances[threads[t].r].refCount,
                                   ![t].pc = "decWrite" ]
    /\ clog' = Touches(threads[t].r)
    /\ UNCHANGED << cursors, instances, standardCursors, mouseCursorLock >>
    /\ UNCHANGED << writerVars, readerVars, listVars >>

\* if (--refCount == 0): the write and the test
DecWrite(t) ==
    /\ threads[t].pc = "decWrite"
    /\ instances' = [ instances EXCEPT ![threads[t].r].refCount = threads[t].count - 1 ]
    /\ threads' = [ threads EXCEPT ![t].pc = IF threads[t].count - 1 = 0 THEN "delete"
                                             ELSE AfterDecRef(threads[t].op) ]
    /\ clog' = Touches(threads[t].r)
    /\ UNCHANGED << cursors, standardCursors, mouseCursorLock >>
    /\ UNCHANGED << writerVars, readerVars, listVars >>

\* delete this: ~RefCountedMouseCursor deletes the native cursor and takes
\* the object out of standardCursors
Delete(t) ==
    /\ threads[t].pc = "delete"
    /\ instances' = [ instances EXCEPT ![threads[t].r].deleted = TRUE ]
    /\ standardCursors' = RemovedFromCache(standardCursors, threads[t].r)
    /\ threads' = [ threads EXCEPT ![t].pc = AfterDecRef(threads[t].op) ]
    /\ clog' = [ clog EXCEPT !.deletedTwice = @ \/ instances[threads[t].r].deleted ]
    /\ UNCHANGED << cursors, mouseCursorLock, writerVars, readerVars, listVars >>

\* cursorHandle = other.cursorHandle in operator=; cursorHandle->incRef() follows
Rebind(t) ==
    /\ threads[t].pc = "rebind"
    /\ cursors' = [ cursors EXCEPT ![threads[t].self] =
                      [ @ EXCEPT !.cursorHandle = cursors[threads[t].other].cursorHandle,
                                 !.madeAs = cursors[threads[t].other].madeAs ] ]
    /\ threads' = [ threads EXCEPT ![t].r = cursors[threads[t].other].cursorHandle,
                                   ![t].pc = "incRead" ]
    /\ UNCHANGED << instances, standardCursors, mouseCursorLock, clog >>
    /\ UNCHANGED << writerVars, readerVars, listVars >>

\* the MouseCursor objects when the operation of thread th has ended
CursorsAfter(th) ==
    IF th.op = "destroy" THEN [ cursors EXCEPT ![th.self] = NoCursor ]
    ELSE IF th.op = "copy"
         THEN [ cursors EXCEPT ![th.self] = [ @ EXCEPT !.state = "live", !.user = NoThread ],
                               ![th.other].user = NoThread ]
    ELSE IF th.op = "assign"
         THEN [ cursors EXCEPT ![th.self].user = NoThread, ![th.other].user = NoThread ]
    ELSE cursors

\* the ScopedLock goes out of scope: of findInstance, which then returns to
\* the constructor; of the copy constructor, the destructor and operator=,
\* which then return
Unlock(t) ==
    /\ threads[t].pc = "unlock"
    /\ mouseCursorLock' = NoThread
    /\ cursors' = CursorsAfter(threads[t])
    /\ threads' = [ threads EXCEPT ![t] = IF threads[t].op = "standard"
                                          THEN [ @ EXCEPT !.pc = "store" ]
                                          ELSE IdleThread ]
    /\ UNCHANGED << instances, standardCursors, clog, writerVars, readerVars, listVars >>

CursorNext ==
    \/ \E t \in Threads, m \in CursorObjects, type \in StandardCursorTypes :
          StandardBegin(t, m, type)
    \/ \E t \in Threads, m \in CursorObjects : ImageBegin(t, m)
    \/ \E t \in Threads, m \in CursorObjects, o \in CursorObjects : CopyBegin(t, m, o)
    \/ \E t \in Threads, m \in CursorObjects : DestroyBegin(t, m)
    \/ \E t \in Threads, m \in CursorObjects, o \in CursorObjects : AssignBegin(t, m, o)
    \/ \E t \in Threads : FindLoop(t)
    \/ \E t \in Threads : FindNew(t)
    \/ \E t \in Threads : IncRead(t)
    \/ \E t \in Threads : IncWrite(t)
    \/ \E t \in Threads : CopyLock(t)
    \/ \E t \in Threads : DecRead(t)
    \/ \E t \in Threads : DecWrite(t)
    \/ \E t \in Threads : Delete(t)
    \/ \E t \in Threads : Rebind(t)
    \/ \E t \in Threads : Unlock(t)
    \/ \E t \in Threads : Store(t)

SpecCursors == CursorInit /\ [][CursorNext]_vars

----------------------------------------------------------------------------
(* Properties of MouseCursor, checked under SpecCursors.                   *)

Allocated == 1..Len(instances)

\* the MouseCursor objects that own a reference to instance r: the live ones
\* whose cursorHandle is r, and those under construction whose findInstance
\* or new has returned r and whose constructor is about to store it
Holders(r) ==
    Cardinality({ m \in CursorObjects : cursors[m].state = "live" /\ cursors[m].cursorHandle = r })
      + Cardinality({ t \in Threads : threads[t].pc = "store" /\ threads[t].r = r })

\* C35: under every interleaving of threads that construct, copy, assign
\* and destroy MouseCursors, while no thread is inside mouseCursorLock the
\* refCount of every RefCountedMouseCursor is the number of MouseCursors
\* that point to it, it has been deleted exactly if that number is zero,
\* and no live MouseCursor points to a deleted one; no member of a deleted
\* RefCountedMouseCursor is ever used and none is deleted twice.
C35_RefCountIsHolderCount ==
    /\ ~clog.usedDeleted
    /\ ~clog.deletedTwice
    /\ mouseCursorLock = NoThread =>
          /\ \A r \in Allocated :
                IF instances[r].deleted THEN Holders(r) = 0
                ELSE Holders(r) > 0 /\ instances[r].refCount = Holders(r)
          /\ \A m \in CursorObjects :
                cursors[m].state = "live" =>
                    /\ cursors[m].cursorHandle \in Allocated
                    /\ ~instances[cursors[m].cursorHandle].deleted

\* operations of the two threads overlapped; no thread is inside the lock;
\* one RefCountedMouseCursor is shared by two live MouseCursors and another
\* has been deleted
C35_Witness ==
    /\ clog.overlapped
    /\ mouseCursorLock = NoThread
    /\ \E r \in Allocated : instances[r].deleted
    /\ \E r \in Allocated :
          /\ instances[r].refCount = 2
          /\ Cardinality({ m \in CursorObjects :
                             cursors[m].state = "live" /\ cursors[m].cursorHandle = r }) = 2

\* the elements of standardCursors
Cached == { standardCursors[i] : i \in 1..Len(standardCursors) }

\* C36: standardCursors holds at most one RefCountedMouseCursor per
\* StandardCursorType in every reachable state, also while several threads
\* construct MouseCursors of one type; it holds exactly the standard
\* instances that have not been deleted, and two live MouseCursors of the
\* same standard type compare equal.
C36_OneCachedInstancePerType ==
    /\ \A i, j \in 1..Len(standardCursors) :
          i # j => instances[standardCursors[i]].standardType
                     # instances[standardCursors[j]].standardType
    /\ Cached = { r \in Allocated : instances[r].isStandard /\ ~instances[r].deleted }
    /\ \A m, o \in CursorObjects :
          (/\ cursors[m].state = "live" /\ cursors[o].state = "live"
           /\ cursors[m].madeAs \in StandardCursorTypes
           /\ cursors[m].madeAs = cursors[o].madeAs)
              => MouseCursor_equals(cursors[m], cursors[o])

\* both threads are constructing a MouseCursor (WaitCursor): findInstance
\* has given both the one instance that standardCursors holds, while an
\* image cursor is alive
C36_Witness ==
    /\ \A t \in Threads :
          /\ threads[t].pc = "store" /\ threads[t].op = "standard"
          /\ threads[t].type = "WaitCursor"
          /\ threads[t].r = standardCursors[1]
    /\ Len(standardCursors) = 1
    /\ instances[standardCursors[1]].refCount = 2
    /\ \E m \in CursorObjects : cursors[m].state = "live" /\ cursors[m].madeAs = "image"

====
